---- MODULE Spec2Model ----
(***************************************************************************)
(* The matching engine of routing/src/matching.cpp as a state machine.     *)
(*                                                                         *)
(* Threads: the API callers (Clients), the pool of matching_worker threads *)
(* (Workers) and the timeout_worker (TK).  A step of a thread is one lock  *)
(* acquisition (std::lock / std::scoped_lock take their two mutexes in one *)
(* step) together with the code that follows it up to the next             *)
(* acquisition that can block.  queue_mutex_ and the per-driver            *)
(* inbox_mutex guard straight-line sections that acquire nothing else      *)
(* (inbox_mutex is only ever taken with drivers_mutex_ held), so they are  *)
(* taken and released inside one step.                                     *)
(*                                                                         *)
(* Spec is the running engine under its callers' scenarios.                *)
(* ManyDriversSpec is the worker serving one rider among up to MaxDrivers  *)
(* registered drivers, DistinctAsksSpec among MaxDrivers drivers of        *)
(* pairwise different asks, SelectSpec among drivers inside and outside    *)
(* the rider's ring disk, RoutedSpec with a RoutingEngine behind the       *)
(* matching engine.  StopSpec adds start(), stop() and the exits of the    *)
(* threads, with fair scheduling of the threads.                           *)
(*                                                                         *)
(* The routing engine of router.cpp, graph.cpp and astar.cpp is a graph    *)
(* and the operations on it: UpdateSpec is the engine under update_edge,   *)
(* RouteSpec under route and update_edge by id, BuildSpec is the last step *)
(* of GraphBuilder::build_graph on a raw graph, GraphSpec is a Graph under *)
(* add_node and add_edge.                                                  *)
(***************************************************************************)
EXTENDS Integers, Sequences, FiniteSets, TLC

\* ---------------------------------------------------------------- bounds
MaxAdds == 3          \* successful add_rider / add_driver calls in a run
MaxTicks == 1         \* advances of the steady clock in a run
MaxDrivers == 6       \* drivers registered around one rider (more than K)

\* ------------------------------------------------------------- constants
K == 5
TIMEOUT_SEC == 300

RiderIds == {1, 2}
DriverIds == {1, 2}
Bids == {1, 2}
Asks == {1, 2}
Locs == {0, 1, 4}     \* 0 and 1 share a cell; the cell of 4 is outside their ring disk

Clients == {"c1", "c2"}

\* The callers' scenarios: the client threads that call the API and the values
\* they pass.  A run follows one of them.
Scenarios ==
    { [clients |-> {"c1", "c2"}, riders |-> {1}, drivers |-> DriverIds,
       asks |-> {1}, bids |-> {1}, locs |-> {0}],
      [clients |-> {"c1"}, riders |-> {1}, drivers |-> DriverIds,
       asks |-> Asks, bids |-> Bids, locs |-> {0}],
      [clients |-> {"c1"}, riders |-> {1}, drivers |-> DriverIds,
       asks |-> {1}, bids |-> {1}, locs |-> Locs],
      [clients |-> {"c1"}, riders |-> RiderIds, drivers |-> {1},
       asks |-> {1}, bids |-> {1}, locs |-> {0}] }
Workers == {"w1"}
TK == "tk"
MAIN == "main"        \* the thread that owns the engine and calls stop()
Threads == Clients \cup Workers \cup {TK, MAIN}
Free == "free"
Mutexes == {"riders_mutex_", "drivers_mutex_", "cells_mutex_"}

VARIABLES
    riders_,            \* id -> Rider, the rider registry
    drivers_,           \* id -> Driver, the driver registry
    drivers_by_cell_,   \* cell -> sequence of driver ids
    pending_riders_,    \* FIFO of rider ids
    mutex,              \* mutex -> the thread holding it, or Free
    pc,                 \* thread -> its position
    frame,              \* thread -> its local variables
    now,                \* std::chrono::steady_clock
    adds,               \* successful adds so far
    ticks,              \* clock advances so far
    scenario,           \* the callers' scenario of this run
    running_,           \* std::atomic<bool>, set by start(), cleared by stop()
    graph_,             \* the Graph of the RoutingEngine behind router_
    route_ret           \* the last call of RoutingEngine::route and what it returned

vars == <<riders_, drivers_, drivers_by_cell_, pending_riders_, mutex, pc, frame,
          now, adds, ticks, scenario, running_, graph_, route_ret>>

\* ------------------------------------------------------------- helpers
Mem(s, x) == \E i \in 1..Len(s) : s[i] = x

\* std::remove + erase: every occurrence of x goes, the rest keep their order
Remove(s, x) == SelectSeq(s, LAMBDA y : y # x)

Erase(f, k) == [x \in (DOMAIN f) \ {k} |-> f[x]]

NoFrame == [driver_id |-> 0, rider_id |-> 0, ids |-> <<>>, expired |-> <<>>,
            cell |-> 0, lost |-> FALSE, result |-> ""]

Rider(bid, loc) ==
    [bid |-> bid, loc |-> loc, state |-> "OPEN", post_time |-> 0,
     pending_drivers |-> <<>>, processed |-> FALSE]

Driver(ask, loc) ==
    [ask |-> ask, loc |-> loc, state |-> "OPEN", inbox |-> <<>>]

\* latLngToCell at H3_RES: locations are points of a line and a cell spans two
\* adjacent ones, so the conversion is many-to-one
location_to_h3(loc) == loc \div 2

\* gridDisk: the cells within radius steps of center
get_neighboring_cells(center, radius) ==
    [i \in 1..(2 * radius + 1) |-> center - radius + (i - 1)]

\* ---------------------------------------------------------------- routing
\* The nodes of a graph and the points of a query lie on one meridian
\* (lon = 0), and a unit of latitude is half a metre of ground: distances are
\* kept in half metres so that the fractions of a metre stay integers.  Node,
\* edge and id values are the 0-based ints of the code; nodes[i] of the code is
\* graph.nodes[i + 1] here.
NoRouter == [null |-> TRUE]

NoCall == [called |-> FALSE, lat1 |-> 0, lat2 |-> 0, cost |-> 0]

\* std::numeric_limits<double>::infinity(): above every finite cost of the model
Infinity == 1000000

Node(lat) == [lat |-> lat, lon |-> 0]

Edge(id, from, to, weight) == [id |-> id, from |-> from, to |-> to, weight |-> weight]

NodeIndices(graph) == 0..(Len(graph.nodes) - 1)

EdgeIndices(graph) == 0..(Len(graph.edges) - 1)

NodeAt(graph, idx) == graph.nodes[idx + 1]

\* the loop hits the first edge carrying the id, overwrites its weight and
\* returns; without such an edge the graph is left as it was
update_edge_weight(graph, id, new_weight) ==
    LET hits == {i \in 1..Len(graph.edges) : graph.edges[i].id = id}
    IN IF hits = {} THEN graph
       ELSE LET first == CHOOSE i \in hits : \A j \in hits : i <= j
            IN [graph EXCEPT !.edges[first].weight = new_weight]

\* update_edge(int id, double weight)
update_edge_int(graph, id, weight) ==
    IF id >= Len(graph.edges) \/ id < 0 THEN graph
    ELSE update_edge_weight(graph, id, weight)

\* update_edge(int from, int to, double weight)
update_edge_int_int(graph, from, to, weight) ==
    LET hits == {i \in 1..Len(graph.edges) :
                    to = graph.edges[i].to /\ from = graph.edges[i].from}
    IN IF hits = {} THEN graph
       ELSE LET first == CHOOSE i \in hits : \A j \in hits : i <= j
            IN update_edge_weight(graph, graph.edges[first].id, weight)

\* the great-circle distance of two points of the meridian, in half metres
haversine(lat1, lat2) == IF lat1 >= lat2 THEN lat1 - lat2 ELSE lat2 - lat1

heuristic(a, b) == haversine(a.lat, b.lat)

\* to_xy puts the points of the meridian at x = 0, y = lat; the projection of P
\* on the segment AB is A (t < 0), B (t > 1) or P itself
point_to_segment_distance(plat, alat, blat) ==
    LET ab2 == (blat - alat) * (blat - alat)
        dot == (plat - alat) * (blat - alat)
    IN IF ab2 = 0 THEN haversine(plat, alat)
       ELSE IF dot < 0 THEN haversine(plat, alat)
       ELSE IF dot > ab2 THEN haversine(plat, blat)
       ELSE 0

\* the scan keeps the first node at the least distance; -1 without nodes
find_nearest_node(graph, lat) ==
    IF graph.nodes = <<>> THEN -1
    ELSE CHOOSE i \in NodeIndices(graph) :
            \A j \in NodeIndices(graph) :
                \/ haversine(lat, NodeAt(graph, i).lat) < haversine(lat, NodeAt(graph, j).lat)
                \/ /\ haversine(lat, NodeAt(graph, i).lat) = haversine(lat, NodeAt(graph, j).lat)
                   /\ i <= j

Directions == {"N", "E", "S", "W", "NE", "NW", "SE", "SW", "BOTH", "NONE"}

matches_direction(from, to, dir) ==
    LET dlat == to.lat - from.lat
        dlon == to.lon - from.lon
    IN IF dir \in {"BOTH", "NONE"} THEN TRUE
       ELSE IF dlat = 0 /\ dlon = 0 THEN FALSE
       ELSE CASE dir = "N" -> dlat > 0
              [] dir = "S" -> dlat < 0
              [] dir = "E" -> dlon > 0
              [] dir = "W" -> dlon < 0
              [] dir = "NE" -> dlat > 0 /\ dlon > 0
              [] dir = "NW" -> dlat > 0 /\ dlon < 0
              [] dir = "SE" -> dlat < 0 /\ dlon > 0
              [] dir = "SW" -> dlat < 0 /\ dlon < 0

\* the distance of edge i (0-based) from the point, in half metres
EdgeDistance(graph, lat, i) ==
    point_to_segment_distance(lat, NodeAt(graph, graph.edges[i + 1].from).lat,
                              NodeAt(graph, graph.edges[i + 1].to).lat)

\* the key of the unordered_map<int, ...>: the distance in metres converted
\* to int, its fraction dropped
TableKey(d) == d \div 2

\* table[best]: the edges that match dir and whose key is the key of best,
\* best being the least distance over all edges, matching or not
find_nearest_edge(graph, lat, dir) ==
    IF graph.edges = <<>> THEN <<>>
    ELSE LET best == CHOOSE d \in {EdgeDistance(graph, lat, i) : i \in EdgeIndices(graph)} :
                        \A i \in EdgeIndices(graph) : d <= EdgeDistance(graph, lat, i)
             listed(i) ==
                 /\ matches_direction(NodeAt(graph, graph.edges[i + 1].from),
                                      NodeAt(graph, graph.edges[i + 1].to), dir)
                 /\ TableKey(EdgeDistance(graph, lat, i)) = TableKey(best)
         IN SelectSeq([i \in 1..Len(graph.edges) |-> i - 1], listed)

\* for (int e : closest_edges) graph_.update_edge_weight(e, weight)
RECURSIVE UpdateEach(_, _, _)
UpdateEach(graph, closest_edges, weight) ==
    IF closest_edges = <<>> THEN graph
    ELSE UpdateEach(update_edge_weight(graph, Head(closest_edges), weight),
                    Tail(closest_edges), weight)

\* update_edge(double lat, double lon, double weight, Direction dir)
update_edge_double_double(graph, lat, weight, dir) ==
    UpdateEach(graph, find_nearest_edge(graph, lat, dir), weight)

\* nodes[idx].edges: the edges out of idx in the order of their add_edge
OutEdges(graph, idx) == SelectSeq(graph.edges, LAMBDA e : e.from = idx)

\* the entries open.top() can return: those of least f_cost.  f_cost is kept
\* doubled (2 g + h with h in half metres), which orders the entries as g + h does
Top(open) == {n \in open : \A m \in open : n.f_cost <= m.f_cost}

\* the loop over nodes[current].edges; st holds g, parent and open
RECURSIVE Relax(_, _, _, _, _, _)
Relax(graph, goal_idx, current, edges, closed, st) ==
    IF edges = <<>> THEN st
    ELSE LET neighbor == Head(edges).to
             tentative_g == st.g[current] + Head(edges).weight
         IN Relax(graph, goal_idx, current, Tail(edges), closed,
                  IF neighbor \notin closed /\ tentative_g < st.g[neighbor]
                  THEN [g |-> [st.g EXCEPT ![neighbor] = tentative_g],
                        parent |-> [st.parent EXCEPT ![neighbor] = current],
                        open |-> st.open \cup
                                 {[index |-> neighbor, g_cost |-> tentative_g,
                                   f_cost |-> 2 * tentative_g
                                              + heuristic(NodeAt(graph, neighbor),
                                                          NodeAt(graph, goal_idx))]}]
                  ELSE st)

Reverse(s) == [i \in 1..Len(s) |-> s[Len(s) + 1 - i]]

\* while (curr != -1): the nodes from curr back along the parents
RECURSIVE WalkParents(_, _)
WalkParents(parent, curr) ==
    IF curr = -1 THEN <<>> ELSE <<curr>> \o WalkParents(parent, parent[curr])

\* the path reversed without std::reverse
ReconstructPath_GoalFirst(parent, goal_idx) == WalkParents(parent, goal_idx)

\* "Reconstruct path": the walk from goal_idx, reversed
ReconstructPath(parent, goal_idx) == Reverse(WalkParents(parent, goal_idx))

\* the AStarResult built from g and parent once the loop has ended
Result(st, goal_idx) ==
    IF st.g[goal_idx] = Infinity
    THEN [path |-> <<>>, total_cost |-> Infinity]
    ELSE [path |-> ReconstructPath(st.parent, goal_idx), total_cost |-> st.g[goal_idx]]

\* while (!open.empty()): the results the loop can end with, over the orders in
\* which entries of equal f_cost leave the queue
RECURSIVE Search(_, _, _, _)
Search(graph, goal_idx, closed, st) ==
    IF st.open = {} THEN {Result(st, goal_idx)}
    ELSE UNION {
           LET rest == [st EXCEPT !.open = @ \ {current}]
           IN IF current.index \in closed THEN Search(graph, goal_idx, closed, rest)
              ELSE IF current.index = goal_idx THEN {Result(st, goal_idx)}
              ELSE Search(graph, goal_idx, closed \cup {current.index},
                          Relax(graph, goal_idx, current.index,
                                OutEdges(graph, current.index),
                                closed \cup {current.index}, rest))
           : current \in Top(st.open) }

\* AStar::shortest_path: the AStarResults it can return; the path is empty and
\* total_cost is Infinity when g[goal_idx] is still infinite
shortest_path(graph, start_idx, goal_idx) ==
    Search(graph, goal_idx, {},
           [g |-> [i \in NodeIndices(graph) |-> IF i = start_idx THEN 0 ELSE Infinity],
            parent |-> [i \in NodeIndices(graph) |-> -1],
            open |-> {[index |-> start_idx, g_cost |-> 0,
                       f_cost |-> heuristic(NodeAt(graph, start_idx),
                                            NodeAt(graph, goal_idx))]}])

\* route reporting a goal that was not reached as a negative cost
route_NoPathNegative(graph, lat1, lat2) ==
    LET start == find_nearest_node(graph, lat1)
        goal == find_nearest_node(graph, lat2)
    IN IF start < 0 \/ goal < 0 THEN {-1}
       ELSE {IF result.total_cost = Infinity THEN -1 ELSE result.total_cost :
                result \in shortest_path(graph, start, goal)}

\* RoutingEngine::route: the values it can return
route(graph, lat1, lat2) ==
    LET start == find_nearest_node(graph, lat1)
        goal == find_nearest_node(graph, lat2)
    IN IF start < 0 \/ goal < 0 THEN {-1}
       ELSE {result.total_cost : result \in shortest_path(graph, start, goal)}

\* the route cost between two locations: router_->route(...) when the engine
\* has a router, their distance along the line otherwise
calculate_distance(a, b) ==
    IF graph_ # NoRouter THEN CHOOSE cost \in route(graph_, a, b) : TRUE
    ELSE IF a >= b THEN a - b ELSE b - a

\* cells[cell] of an unordered_map: a missing key reads as the empty vector
BucketOf(cells, cell) == IF cell \in DOMAIN cells THEN cells[cell] ELSE <<>>

Bucket(cell) == BucketOf(drivers_by_cell_, cell)

\* drivers_.emplace(id, ...) with a new id
Emplace(drv, id, ask, loc) == (id :> Driver(ask, loc)) @@ drv

\* drivers_by_cell_[cell].push_back(id)
PushCell(cells, cell, id) == (cell :> Append(BucketOf(cells, cell), id)) @@ cells

\* the removal from a cell emptying its vector
EraseFromCell_Clear(cells, cell, id) == (cell :> <<>>) @@ cells

\* cell_drivers.erase(std::remove(..., id), end) on drivers_by_cell_[cell]
EraseFromCell(cells, cell, id) == (cell :> Remove(BucketOf(cells, cell), id)) @@ cells

Acquire(t, ms) == [m \in Mutexes |-> IF m \in ms THEN t ELSE mutex[m]]
Release(ms) == [m \in Mutexes |-> IF m \in ms THEN Free ELSE mutex[m]]
IsFree(ms) == \A m \in ms : mutex[m] = Free

\* the matching_worker threads that hold a Rider* to the record of rider id
Pointing(id) ==
    {w \in Workers : pc[w] \in {"wk_cells", "wk_find"} /\ frame[w].rider_id = id}

\* the frames after the record of rider id is erased: those pointers dangle
Dangle(id, fr) ==
    [t \in Threads |-> IF t \in Pointing(id) THEN [fr[t] EXCEPT !.lost = TRUE] ELSE fr[t]]

Init ==
    /\ riders_ = <<>>
    /\ drivers_ = <<>>
    /\ drivers_by_cell_ = <<>>
    /\ pending_riders_ = <<>>
    /\ mutex = [m \in Mutexes |-> Free]
    /\ pc = [t \in Threads |->
                IF t \in Workers THEN "wk_top" ELSE IF t = TK THEN "tk_sleep" ELSE "idle"]
    /\ frame = [t \in Threads |-> NoFrame]
    /\ now = 0
    /\ adds = 0
    /\ ticks = 0
    /\ scenario \in Scenarios
    /\ running_ = TRUE
    /\ graph_ = NoRouter
    /\ route_ret = NoCall

\* where a thread goes when its API call returns; the timeout_worker goes on
\* with the rest of expired_riders
Return(t, expired) ==
    IF t = TK THEN (IF expired = <<>> THEN "tk_sleep" ELSE "tk_cancel") ELSE "idle"

\* ------------------------------------------------------------ add_rider
\* add_rider assigning the record whether or not the id is registered
add_rider_Overwrite(t, id, bid, loc) ==
    /\ pc[t] = "idle"
    /\ IsFree({"riders_mutex_"})
    /\ (adds < MaxAdds \/ id \in DOMAIN riders_)
    /\ riders_' = (id :> [Rider(bid, loc) EXCEPT !.post_time = now]) @@ riders_
    /\ mutex' = Acquire(t, {"riders_mutex_"})
    /\ pc' = [pc EXCEPT ![t] = IF id \in DOMAIN riders_ THEN "ar_exists" ELSE "ar_queue"]
    /\ frame' = [frame EXCEPT ![t] =
                    [NoFrame EXCEPT !.rider_id = id,
                                    !.result = IF id \in DOMAIN riders_
                                               THEN "ALREADY_EXISTS" ELSE ""]]
    /\ adds' = IF id \in DOMAIN riders_ THEN adds ELSE adds + 1
    /\ UNCHANGED <<drivers_, drivers_by_cell_, pending_riders_, now, ticks, scenario, running_,
                   graph_, route_ret>>

add_rider(t, id, bid, loc) ==
    /\ pc[t] = "idle"
    /\ IsFree({"riders_mutex_"})
    /\ IF id \in DOMAIN riders_
       THEN /\ mutex' = Acquire(t, {"riders_mutex_"})
            /\ pc' = [pc EXCEPT ![t] = "ar_exists"]
            /\ frame' = [frame EXCEPT ![t] = [NoFrame EXCEPT !.rider_id = id,
                                                             !.result = "ALREADY_EXISTS"]]
            /\ UNCHANGED <<riders_, drivers_, drivers_by_cell_, pending_riders_, now,
                           adds, ticks, scenario, running_, graph_, route_ret>>
       ELSE /\ adds < MaxAdds
            /\ riders_' = (id :> [Rider(bid, loc) EXCEPT !.post_time = now]) @@ riders_
            /\ mutex' = Acquire(t, {"riders_mutex_"})
            /\ pc' = [pc EXCEPT ![t] = "ar_queue"]
            /\ frame' = [frame EXCEPT ![t] = [NoFrame EXCEPT !.rider_id = id]]
            /\ adds' = adds + 1
            /\ UNCHANGED <<drivers_, drivers_by_cell_, pending_riders_, now, ticks, scenario, running_,
                   graph_, route_ret>>

add_rider_push(t) ==
    /\ pc[t] = "ar_queue"
    /\ pending_riders_' = Append(pending_riders_, frame[t].rider_id)
    /\ mutex' = Release({"riders_mutex_"})
    /\ pc' = [pc EXCEPT ![t] = "idle"]
    /\ frame' = [frame EXCEPT ![t] = NoFrame]
    /\ UNCHANGED <<riders_, drivers_, drivers_by_cell_, now, adds, ticks, scenario, running_,
                   graph_, route_ret>>

\* "Rider <id> already exists" is printed and the call returns
add_rider_exists(t) ==
    /\ pc[t] = "ar_exists"
    /\ mutex' = Release({"riders_mutex_"})
    /\ pc' = [pc EXCEPT ![t] = "idle"]
    /\ frame' = [frame EXCEPT ![t] = NoFrame]
    /\ UNCHANGED <<riders_, drivers_, drivers_by_cell_, pending_riders_, now, adds, ticks,
                   scenario, running_, graph_, route_ret>>

\* ----------------------------------------------------------- add_driver
add_driver(t, id, ask, loc) ==
    /\ pc[t] = "idle"
    /\ IsFree({"drivers_mutex_"})
    /\ IF id \in DOMAIN drivers_
       THEN /\ mutex' = Acquire(t, {"drivers_mutex_"})
            /\ pc' = [pc EXCEPT ![t] = "ad_exists"]
            /\ frame' = [frame EXCEPT ![t] = [NoFrame EXCEPT !.driver_id = id,
                                                             !.result = "ALREADY_EXISTS"]]
            /\ UNCHANGED <<riders_, drivers_, drivers_by_cell_, pending_riders_, now,
                           adds, ticks, scenario, running_, graph_, route_ret>>
       ELSE /\ adds < MaxAdds
            /\ drivers_' = Emplace(drivers_, id, ask, loc)
            /\ mutex' = Acquire(t, {"drivers_mutex_"})
            /\ pc' = [pc EXCEPT ![t] = "ad_cells"]
            /\ frame' = [frame EXCEPT ![t] = [NoFrame EXCEPT !.driver_id = id]]
            /\ adds' = adds + 1
            /\ UNCHANGED <<riders_, drivers_by_cell_, pending_riders_, now, ticks, scenario, running_,
                   graph_, route_ret>>

add_driver_index(t) ==
    /\ pc[t] = "ad_cells"
    /\ IsFree({"cells_mutex_"})
    /\ LET id == frame[t].driver_id
           cell == location_to_h3(drivers_[id].loc)
       IN drivers_by_cell_' = PushCell(drivers_by_cell_, cell, id)
    /\ mutex' = Release({"drivers_mutex_"})
    /\ pc' = [pc EXCEPT ![t] = "idle"]
    /\ frame' = [frame EXCEPT ![t] = NoFrame]
    /\ UNCHANGED <<riders_, drivers_, pending_riders_, now, adds, ticks, scenario, running_,
                   graph_, route_ret>>

\* "Driver <id> already exists" is printed and the call returns
add_driver_exists(t) ==
    /\ pc[t] = "ad_exists"
    /\ mutex' = Release({"drivers_mutex_"})
    /\ pc' = [pc EXCEPT ![t] = "idle"]
    /\ frame' = [frame EXCEPT ![t] = NoFrame]
    /\ UNCHANGED <<riders_, drivers_, drivers_by_cell_, pending_riders_, now, adds, ticks,
                   scenario, running_, graph_, route_ret>>

\* -------------------------------------------------------- driver_accept
\* driver_accept without its inbox check
AcceptOutcome_NoInboxCheck(driver_id, rider_id) ==
    IF driver_id \notin DOMAIN drivers_ THEN "NOT_FOUND"
    ELSE IF rider_id \notin DOMAIN riders_ THEN "NOT_FOUND"
    ELSE IF drivers_[driver_id].state # "OPEN" THEN "ALREADY_CLOSED"
    ELSE IF riders_[rider_id].state # "OPEN" THEN "ALREADY_CLOSED"
    ELSE "MATCH"

\* the early returns of driver_accept in the order of the code
AcceptOutcome(driver_id, rider_id) ==
    IF driver_id \notin DOMAIN drivers_ THEN "NOT_FOUND"
    ELSE IF rider_id \notin DOMAIN riders_ THEN "NOT_FOUND"
    ELSE IF ~Mem(drivers_[driver_id].inbox, rider_id) THEN "NOT_OFFERED"
    ELSE IF drivers_[driver_id].state # "OPEN" THEN "ALREADY_CLOSED"
    ELSE IF riders_[rider_id].state # "OPEN" THEN "ALREADY_CLOSED"
    ELSE "MATCH"

\* the call is issued: the thread waits for std::lock(rlock, dlock)
driver_accept(t, driver_id, rider_id) ==
    /\ pc[t] = "idle"
    /\ pc' = [pc EXCEPT ![t] = "da_lock"]
    /\ frame' = [frame EXCEPT ![t] = [NoFrame EXCEPT !.driver_id = driver_id,
                                                      !.rider_id = rider_id]]
    /\ UNCHANGED <<riders_, drivers_, drivers_by_cell_, pending_riders_, mutex,
                   now, adds, ticks, scenario, running_, graph_, route_ret>>

\* driver_accept marking the driver MATCHED as soon as it is found, before the
\* remaining checks
driver_accept_locked_EarlyUpdate(t) ==
    /\ pc[t] = "da_lock"
    /\ IsFree({"riders_mutex_", "drivers_mutex_"})
    /\ mutex' = Acquire(t, {"riders_mutex_", "drivers_mutex_"})
    /\ LET d == frame[t].driver_id
           r == frame[t].rider_id
       IN /\ drivers_' = IF d \in DOMAIN drivers_
                         THEN [drivers_ EXCEPT ![d].state = "MATCHED"]
                         ELSE drivers_
          /\ IF AcceptOutcome(d, r) = "MATCH"
             THEN /\ riders_' = [riders_ EXCEPT ![r].state = "MATCHED"]
                  /\ pc' = [pc EXCEPT ![t] = "da_cleanup"]
                  /\ UNCHANGED frame
             ELSE /\ pc' = [pc EXCEPT ![t] = "da_fail"]
                  /\ frame' = [frame EXCEPT ![t].result = AcceptOutcome(d, r)]
                  /\ UNCHANGED riders_
    /\ UNCHANGED <<drivers_by_cell_, pending_riders_, now, adds, ticks, scenario, running_,
                   graph_, route_ret>>

\* driver_accept without rider.state = State::MATCHED
driver_accept_locked_RiderLeftOpen(t) ==
    /\ pc[t] = "da_lock"
    /\ IsFree({"riders_mutex_", "drivers_mutex_"})
    /\ mutex' = Acquire(t, {"riders_mutex_", "drivers_mutex_"})
    /\ LET d == frame[t].driver_id
           r == frame[t].rider_id
       IN IF AcceptOutcome(d, r) = "MATCH"
          THEN /\ drivers_' = [drivers_ EXCEPT ![d].state = "MATCHED"]
               /\ pc' = [pc EXCEPT ![t] = "da_cleanup"]
               /\ UNCHANGED <<riders_, frame>>
          ELSE /\ pc' = [pc EXCEPT ![t] = "da_fail"]
               /\ frame' = [frame EXCEPT ![t].result = AcceptOutcome(d, r)]
               /\ UNCHANGED <<riders_, drivers_>>
    /\ UNCHANGED <<drivers_by_cell_, pending_riders_, now, adds, ticks, scenario, running_,
                   graph_, route_ret>>

\* the checks and, if they pass, the state updates; a failed check prints its
\* message and returns, which releases the locks
driver_accept_locked(t) ==
    /\ pc[t] = "da_lock"
    /\ IsFree({"riders_mutex_", "drivers_mutex_"})
    /\ mutex' = Acquire(t, {"riders_mutex_", "drivers_mutex_"})
    /\ LET d == frame[t].driver_id
           r == frame[t].rider_id
       IN IF AcceptOutcome(d, r) = "MATCH"
          THEN /\ drivers_' = [drivers_ EXCEPT ![d].state = "MATCHED"]
               /\ riders_' = [riders_ EXCEPT ![r].state = "MATCHED"]
               /\ pc' = [pc EXCEPT ![t] = "da_cleanup"]
               /\ UNCHANGED frame
          ELSE /\ pc' = [pc EXCEPT ![t] = "da_fail"]
               /\ frame' = [frame EXCEPT ![t].result = AcceptOutcome(d, r)]
               /\ UNCHANGED <<riders_, drivers_>>
    /\ UNCHANGED <<drivers_by_cell_, pending_riders_, now, adds, ticks, scenario, running_,
                   graph_, route_ret>>

driver_accept_return(t) ==
    /\ pc[t] = "da_fail"
    /\ mutex' = Release({"riders_mutex_", "drivers_mutex_"})
    /\ pc' = [pc EXCEPT ![t] = "idle"]
    /\ frame' = [frame EXCEPT ![t] = NoFrame]
    /\ UNCHANGED <<riders_, drivers_, drivers_by_cell_, pending_riders_, now, adds, ticks,
                   scenario, running_, graph_, route_ret>>

\* the inboxes after rider_id is removed from the inbox of every registered
\* driver listed in ids, except driver skip
SweepInboxes(ids, rider_id, skip) ==
    [d \in DOMAIN drivers_ |->
        IF Mem(ids, d) /\ d # skip
        THEN [drivers_[d] EXCEPT !.inbox = Remove(@, rider_id)]
        ELSE drivers_[d]]

\* cleanup_after_match without riders_.erase(rider_id)
cleanup_after_match_RiderKept(t) ==
    /\ pc[t] = "da_cleanup"
    /\ IsFree({"cells_mutex_"})
    /\ LET d == frame[t].driver_id
           r == frame[t].rider_id
           cell == location_to_h3(drivers_[d].loc)
       IN /\ drivers_by_cell_' = EraseFromCell(drivers_by_cell_, cell, d)
          /\ drivers_' = Erase(SweepInboxes(riders_[r].pending_drivers, r, d), d)
    /\ mutex' = Release({"riders_mutex_", "drivers_mutex_"})
    /\ pc' = [pc EXCEPT ![t] = "idle"]
    /\ frame' = [frame EXCEPT ![t] = NoFrame]
    /\ UNCHANGED <<riders_, pending_riders_, now, adds, ticks, scenario, running_, graph_, route_ret>>

\* cleanup_after_match without drivers_.erase(driver_id)
cleanup_after_match_DriverKept(t) ==
    /\ pc[t] = "da_cleanup"
    /\ IsFree({"cells_mutex_"})
    /\ LET d == frame[t].driver_id
           r == frame[t].rider_id
           cell == location_to_h3(drivers_[d].loc)
       IN /\ drivers_by_cell_' = EraseFromCell(drivers_by_cell_, cell, d)
          /\ drivers_' = [SweepInboxes(riders_[r].pending_drivers, r, d)
                             EXCEPT ![d].state = "OPEN"]
          /\ riders_' = Erase(riders_, r)
          /\ frame' = [Dangle(r, frame) EXCEPT ![t] = NoFrame]
    /\ mutex' = Release({"riders_mutex_", "drivers_mutex_"})
    /\ pc' = [pc EXCEPT ![t] = "idle"]
    /\ UNCHANGED <<pending_riders_, now, adds, ticks, scenario, running_, graph_, route_ret>>

\* cleanup_after_match without the loop over the rider's pending_drivers
cleanup_after_match_InboxesKept(t) ==
    /\ pc[t] = "da_cleanup"
    /\ IsFree({"cells_mutex_"})
    /\ LET d == frame[t].driver_id
           r == frame[t].rider_id
           cell == location_to_h3(drivers_[d].loc)
       IN /\ drivers_by_cell_' = EraseFromCell(drivers_by_cell_, cell, d)
          /\ drivers_' = Erase(drivers_, d)
          /\ riders_' = Erase(riders_, r)
          /\ frame' = [Dangle(r, frame) EXCEPT ![t] = NoFrame]
    /\ mutex' = Release({"riders_mutex_", "drivers_mutex_"})
    /\ pc' = [pc EXCEPT ![t] = "idle"]
    /\ UNCHANGED <<pending_riders_, now, adds, ticks, scenario, running_, graph_, route_ret>>

\* cleanup_after_match erasing, with the rider, every rider in the driver's inbox
cleanup_after_match_InboxRidersErased(t) ==
    /\ pc[t] = "da_cleanup"
    /\ IsFree({"cells_mutex_"})
    /\ LET d == frame[t].driver_id
           r == frame[t].rider_id
           cell == location_to_h3(drivers_[d].loc)
       IN /\ drivers_by_cell_' = EraseFromCell(drivers_by_cell_, cell, d)
          /\ drivers_' = Erase(SweepInboxes(riders_[r].pending_drivers, r, d), d)
          /\ riders_' = [x \in {y \in DOMAIN riders_ :
                                   y # r /\ ~Mem(drivers_[d].inbox, y)} |-> riders_[x]]
          /\ frame' = [Dangle(r, frame) EXCEPT ![t] = NoFrame]
    /\ mutex' = Release({"riders_mutex_", "drivers_mutex_"})
    /\ pc' = [pc EXCEPT ![t] = "idle"]
    /\ UNCHANGED <<pending_riders_, now, adds, ticks, scenario, running_, graph_, route_ret>>

cleanup_after_match(t) ==
    /\ pc[t] = "da_cleanup"
    /\ IsFree({"cells_mutex_"})
    /\ LET d == frame[t].driver_id
           r == frame[t].rider_id
           cell == location_to_h3(drivers_[d].loc)
           pending == IF r \in DOMAIN riders_ THEN riders_[r].pending_drivers ELSE <<>>
       IN /\ drivers_by_cell_' =
                 IF d \in DOMAIN drivers_
                 THEN EraseFromCell(drivers_by_cell_, cell, d)
                 ELSE drivers_by_cell_
          /\ drivers_' = Erase(SweepInboxes(pending, r, d), d)
          /\ riders_' = Erase(riders_, r)
          /\ frame' = [Dangle(r, frame) EXCEPT ![t] = NoFrame]
    /\ mutex' = Release({"riders_mutex_", "drivers_mutex_"})
    /\ pc' = [pc EXCEPT ![t] = "idle"]
    /\ UNCHANGED <<pending_riders_, now, adds, ticks, scenario, running_, graph_, route_ret>>

\* -------------------------------------------------------- driver_cancel
driver_cancel(t, driver_id) ==
    /\ pc[t] = "idle"
    /\ IsFree({"drivers_mutex_"})
    /\ IF driver_id \notin DOMAIN drivers_
       THEN UNCHANGED vars
       ELSE /\ drivers_' = [drivers_ EXCEPT ![driver_id].state = "CANCELLED"]
            /\ mutex' = Acquire(t, {"drivers_mutex_"})
            /\ pc' = [pc EXCEPT ![t] = "dc_cells"]
            /\ frame' = [frame EXCEPT ![t] = [NoFrame EXCEPT !.driver_id = driver_id]]
            /\ UNCHANGED <<riders_, drivers_by_cell_, pending_riders_, now, adds, ticks, scenario, running_,
                   graph_, route_ret>>

\* driver_cancel leaving the driver's id in its cell
driver_cancel_erase_IndexKept(t) ==
    /\ pc[t] = "dc_cells"
    /\ IsFree({"cells_mutex_"})
    /\ drivers_' = Erase(drivers_, frame[t].driver_id)
    /\ mutex' = Release({"drivers_mutex_"})
    /\ pc' = [pc EXCEPT ![t] = "idle"]
    /\ frame' = [frame EXCEPT ![t] = NoFrame]
    /\ UNCHANGED <<riders_, drivers_by_cell_, pending_riders_, now, adds, ticks, scenario, running_,
                   graph_, route_ret>>

driver_cancel_erase(t) ==
    /\ pc[t] = "dc_cells"
    /\ IsFree({"cells_mutex_"})
    /\ LET d == frame[t].driver_id
           cell == location_to_h3(drivers_[d].loc)
       IN /\ drivers_by_cell_' = EraseFromCell(drivers_by_cell_, cell, d)
          /\ drivers_' = Erase(drivers_, d)
    /\ mutex' = Release({"drivers_mutex_"})
    /\ pc' = [pc EXCEPT ![t] = "idle"]
    /\ frame' = [frame EXCEPT ![t] = NoFrame]
    /\ UNCHANGED <<riders_, pending_riders_, now, adds, ticks, scenario, running_, graph_, route_ret>>

\* --------------------------------------------------------- rider_cancel
\* called by a client, or by the timeout_worker for the head of expired_riders
rider_cancel(t, rider_id) ==
    /\ \/ t # TK /\ pc[t] = "idle"
       \/ t = TK /\ pc[t] = "tk_cancel" /\ rider_id = Head(frame[t].expired)
    /\ IsFree({"riders_mutex_"})
    /\ LET rest == IF t = TK THEN Tail(frame[t].expired) ELSE <<>>
       IN IF rider_id \notin DOMAIN riders_
          THEN /\ pc' = [pc EXCEPT ![t] = Return(t, rest)]
               /\ frame' = [frame EXCEPT ![t] = [NoFrame EXCEPT !.expired = rest]]
               /\ UNCHANGED riders_
          ELSE /\ riders_' = Erase(riders_, rider_id)
               /\ pc' = [pc EXCEPT ![t] = "rc_sweep"]
               /\ frame' = [Dangle(rider_id, frame) EXCEPT ![t] =
                               [NoFrame EXCEPT !.rider_id = rider_id,
                                               !.ids = riders_[rider_id].pending_drivers,
                                               !.expired = rest]]
    /\ UNCHANGED <<drivers_, drivers_by_cell_, pending_riders_, mutex, now, adds, ticks, scenario, running_,
                   graph_, route_ret>>

rider_cancel_sweep(t) ==
    /\ pc[t] = "rc_sweep"
    /\ IsFree({"drivers_mutex_"})
    /\ drivers_' = SweepInboxes(frame[t].ids, frame[t].rider_id, 0)
    /\ pc' = [pc EXCEPT ![t] = Return(t, frame[t].expired)]
    /\ frame' = [frame EXCEPT ![t] = [NoFrame EXCEPT !.expired = frame[t].expired]]
    /\ UNCHANGED <<riders_, drivers_by_cell_, pending_riders_, mutex, now, adds, ticks, scenario, running_,
                   graph_, route_ret>>

\* ------------------------------------------------------ matching_worker
\* while (running_), then the pop under queue_mutex_; on an empty queue the
\* worker sleeps and tests running_ again, which changes nothing
worker_dequeue(w) ==
    /\ pc[w] = "wk_top"
    /\ running_
    /\ pending_riders_ # <<>>
    /\ pending_riders_' = Tail(pending_riders_)
    /\ pc' = [pc EXCEPT ![w] = "wk_get"]
    /\ frame' = [frame EXCEPT ![w] = [NoFrame EXCEPT !.rider_id = Head(pending_riders_)]]
    /\ UNCHANGED <<riders_, drivers_, drivers_by_cell_, mutex, now, adds, ticks, scenario, running_,
                   graph_, route_ret>>

\* "Get rider": the Rider* is kept after riders_mutex_ is released
worker_get_rider(w) ==
    /\ pc[w] = "wk_get"
    /\ IsFree({"riders_mutex_"})
    /\ LET id == frame[w].rider_id
       IN IF id \notin DOMAIN riders_ \/ riders_[id].state # "OPEN"
          THEN /\ pc' = [pc EXCEPT ![w] = "wk_top"]
               /\ frame' = [frame EXCEPT ![w] = NoFrame]
          ELSE /\ pc' = [pc EXCEPT ![w] = "wk_cells"]
               /\ UNCHANGED frame
    /\ UNCHANGED <<riders_, drivers_, drivers_by_cell_, pending_riders_, mutex,
                   now, adds, ticks, scenario, running_, graph_, route_ret>>

\* what a read of rider.loc / rider.bid through the Rider* of worker w can give:
\* the field, or anything once the record was erased (use after free)
ReadLoc(w) == IF frame[w].lost THEN Locs ELSE {riders_[frame[w].rider_id].loc}
ReadBid(w) == IF frame[w].lost THEN Bids ELSE {riders_[frame[w].rider_id].bid}

PairLess(p, q) == p[1] < q[1] \/ (p[1] = q[1] /\ p[2] < q[2])

RECURSIVE InsertSorted(_, _)
InsertSorted(s, p) ==
    IF s = <<>> THEN <<p>>
    ELSE IF PairLess(p, Head(s)) THEN <<p>> \o s
    ELSE <<Head(s)>> \o InsertSorted(Tail(s), p)

\* std::sort of the (distance, driver_id) pairs
RECURSIVE Sort(_)
Sort(s) == IF s = <<>> THEN <<>> ELSE InsertSorted(Sort(Tail(s)), Head(s))

RECURSIVE IdsInCells(_)
IdsInCells(cells) ==
    IF cells = <<>> THEN <<>> ELSE Bucket(Head(cells)) \o IdsInCells(Tail(cells))

\* the filters of the loop without the test of driver.ask against rider.bid
Eligible_AnyAsk(driver_id, bids, loc) ==
    /\ driver_id \in DOMAIN drivers_
    /\ ~(drivers_[driver_id].state # "OPEN")
    /\ ~(calculate_distance(loc, drivers_[driver_id].loc) < 0)

\* the driver passes the filters of the loop, rider.bid being read as
\* bids[driver_id]
Eligible(driver_id, bids, loc) ==
    /\ driver_id \in DOMAIN drivers_
    /\ ~(drivers_[driver_id].state # "OPEN")
    /\ ~(drivers_[driver_id].ask > bids[driver_id])
    /\ ~(calculate_distance(loc, drivers_[driver_id].loc) < 0)

\* find_k_closest_drivers returning every candidate
find_k_closest_drivers_All(rider_cell, bids, loc, k) ==
    LET ids == SelectSeq(IdsInCells(get_neighboring_cells(rider_cell, 1)),
                         LAMBDA d : Eligible(d, bids, loc))
        candidates == [i \in 1..Len(ids) |->
                          <<calculate_distance(loc, drivers_[ids[i]].loc), ids[i]>>]
        sorted == Sort(candidates)
    IN [i \in 1..Len(sorted) |-> sorted[i][2]]

\* bids: the value each read of rider.bid gave, by driver
find_k_closest_drivers(rider_cell, bids, loc, k) ==
    LET ids == SelectSeq(IdsInCells(get_neighboring_cells(rider_cell, 1)),
                         LAMBDA d : Eligible(d, bids, loc))
        candidates == [i \in 1..Len(ids) |->
                          <<calculate_distance(loc, drivers_[ids[i]].loc), ids[i]>>]
        sorted == Sort(candidates)
        n == IF k < Len(sorted) THEN k ELSE Len(sorted)
    IN [i \in 1..n |-> sorted[i][2]]

\* find_k_closest_drivers up to its first lock: rider_cell is computed
worker_lock_cells(w) ==
    /\ pc[w] = "wk_cells"
    /\ IsFree({"cells_mutex_"})
    /\ \E loc \in ReadLoc(w) :
          frame' = [frame EXCEPT ![w].cell = location_to_h3(loc)]
    /\ mutex' = Acquire(w, {"cells_mutex_"})
    /\ pc' = [pc EXCEPT ![w] = "wk_find"]
    /\ UNCHANGED <<riders_, drivers_, drivers_by_cell_, pending_riders_, now, adds, ticks,
                   scenario, running_, graph_, route_ret>>

worker_find(w) ==
    /\ pc[w] = "wk_find"
    /\ IsFree({"drivers_mutex_"})
    /\ \E loc \in ReadLoc(w), bids \in [DOMAIN drivers_ -> ReadBid(w)] :
          LET driver_ids == find_k_closest_drivers(frame[w].cell, bids, loc, K)
          IN /\ frame' = [frame EXCEPT ![w].ids = driver_ids, ![w].cell = 0,
                                       ![w].lost = FALSE]
             /\ pc' = [pc EXCEPT ![w] = IF driver_ids # <<>> THEN "wk_send" ELSE "wk_mark"]
    /\ mutex' = Release({"cells_mutex_"})
    /\ UNCHANGED <<riders_, drivers_, drivers_by_cell_, pending_riders_, now, adds, ticks,
                   scenario, running_, graph_, route_ret>>

\* driver.inbox.push_back(rider_id) for each listed driver still registered
RECURSIVE Offer(_, _, _)
Offer(drv, ids, rider_id) ==
    IF ids = <<>> THEN drv
    ELSE Offer(IF Head(ids) \in DOMAIN drv
               THEN [drv EXCEPT ![Head(ids)].inbox = Append(@, rider_id)]
               ELSE drv,
               Tail(ids), rider_id)

send_offers(w) ==
    /\ pc[w] = "wk_send"
    /\ IsFree({"drivers_mutex_", "riders_mutex_"})
    /\ LET id == frame[w].rider_id
       IN /\ drivers_' = Offer(drivers_, frame[w].ids, id)
          /\ riders_' = IF id \in DOMAIN riders_
                        THEN [riders_ EXCEPT ![id].pending_drivers = frame[w].ids]
                        ELSE riders_
    /\ pc' = [pc EXCEPT ![w] = "wk_mark"]
    /\ frame' = [frame EXCEPT ![w].ids = <<>>]
    /\ UNCHANGED <<drivers_by_cell_, pending_riders_, mutex, now, adds, ticks, scenario, running_,
                   graph_, route_ret>>

mark_rider_processed(w) ==
    /\ pc[w] = "wk_mark"
    /\ IsFree({"riders_mutex_"})
    /\ LET id == frame[w].rider_id
       IN riders_' = IF id \in DOMAIN riders_
                     THEN [riders_ EXCEPT ![id].processed = TRUE]
                     ELSE riders_
    /\ pc' = [pc EXCEPT ![w] = "wk_top"]
    /\ frame' = [frame EXCEPT ![w] = NoFrame]
    /\ UNCHANGED <<drivers_, drivers_by_cell_, pending_riders_, mutex, now, adds, ticks, scenario, running_,
                   graph_, route_ret>>

\* ------------------------------------------------------- timeout_worker
\* the orders in which the scan of the unordered_map can list the set s
Orders(s) ==
    {q \in [1..Cardinality(s) -> s] : \A i, j \in 1..Cardinality(s) : q[i] = q[j] => i = j}

Expired ==
    {id \in DOMAIN riders_ :
        now - riders_[id].post_time >= TIMEOUT_SEC /\ riders_[id].state = "OPEN"}

\* while (running_), the sleep and the scan under riders_mutex_; a scan that
\* finds nothing goes back to the test of running_
timeout_scan ==
    /\ pc[TK] = "tk_sleep"
    /\ running_
    /\ IsFree({"riders_mutex_"})
    /\ Expired # {}
    /\ \E q \in Orders(Expired) : frame' = [frame EXCEPT ![TK].expired = q]
    /\ pc' = [pc EXCEPT ![TK] = "tk_cancel"]
    /\ UNCHANGED <<riders_, drivers_, drivers_by_cell_, pending_riders_, mutex,
                   now, adds, ticks, scenario, running_, graph_, route_ret>>

Tick ==
    /\ ticks < MaxTicks
    /\ now' = now + TIMEOUT_SEC
    /\ ticks' = ticks + 1
    /\ UNCHANGED <<riders_, drivers_, drivers_by_cell_, pending_riders_, mutex, pc, frame,
                   adds, scenario, running_, graph_, route_ret>>

Next ==
    \/ \E t \in scenario.clients, id \in scenario.riders, bid \in scenario.bids,
          loc \in scenario.locs : add_rider(t, id, bid, loc)
    \/ \E t \in Clients : add_rider_push(t)
    \/ \E t \in Clients : add_rider_exists(t)
    \/ \E t \in scenario.clients, id \in scenario.drivers, ask \in scenario.asks,
          loc \in scenario.locs : add_driver(t, id, ask, loc)
    \/ \E t \in Clients : add_driver_index(t)
    \/ \E t \in Clients : add_driver_exists(t)
    \/ \E t \in scenario.clients, d \in scenario.drivers, r \in scenario.riders :
          driver_accept(t, d, r)
    \/ \E t \in Clients : driver_accept_locked(t)
    \/ \E t \in Clients : driver_accept_return(t)
    \/ \E t \in Clients : cleanup_after_match(t)
    \/ \E t \in scenario.clients, d \in scenario.drivers : driver_cancel(t, d)
    \/ \E t \in Clients : driver_cancel_erase(t)
    \/ \E t \in scenario.clients, r \in scenario.riders : rider_cancel(t, r)
    \/ \E r \in RiderIds : rider_cancel(TK, r)
    \/ \E t \in Clients \cup {TK} : rider_cancel_sweep(t)
    \/ \E w \in Workers : worker_dequeue(w)
    \/ \E w \in Workers : worker_get_rider(w)
    \/ \E w \in Workers : worker_lock_cells(w)
    \/ \E w \in Workers : worker_find(w)
    \/ \E w \in Workers : send_offers(w)
    \/ \E w \in Workers : mark_rider_processed(w)
    \/ timeout_scan
    \/ Tick

Spec == Init /\ [][Next]_vars

\* ----------------------------------------------------------------- stop
\* start(): if (running_) return; otherwise running_ = true, the worker threads
\* and the timeout thread are created and start() returns
start_Respawn ==
    /\ pc[MAIN] \in {"idle", "stopped"}
    /\ running_' = TRUE
    /\ pc' = [t \in Threads |->
                 IF t \in Workers THEN "wk_top"
                 ELSE IF t = TK THEN "tk_sleep"
                 ELSE IF t = MAIN THEN (IF running_ THEN "start_ret" ELSE "idle")
                 ELSE pc[t]]
    /\ UNCHANGED <<riders_, drivers_, drivers_by_cell_, pending_riders_, mutex, frame,
                   now, adds, ticks, scenario, graph_, route_ret>>

start ==
    /\ pc[MAIN] \in {"idle", "stopped"}
    /\ IF running_
       THEN /\ pc' = [pc EXCEPT ![MAIN] = "start_ret"]
            /\ UNCHANGED running_
       ELSE /\ running_' = TRUE
            /\ pc' = [t \in Threads |->
                         IF t \in Workers THEN "wk_top"
                         ELSE IF t = TK THEN "tk_sleep"
                         ELSE IF t = MAIN THEN "idle"
                         ELSE pc[t]]
    /\ UNCHANGED <<riders_, drivers_, drivers_by_cell_, pending_riders_, mutex, frame,
                   now, adds, ticks, scenario, graph_, route_ret>>

\* the return of start() on a running engine
start_return ==
    /\ pc[MAIN] = "start_ret"
    /\ pc' = [pc EXCEPT ![MAIN] = "idle"]
    /\ UNCHANGED <<riders_, drivers_, drivers_by_cell_, pending_riders_, mutex, frame,
                   now, adds, ticks, scenario, running_, graph_, route_ret>>

\* stop(): if (!running_) return; otherwise running_ = false and stop() goes on
\* to take riders_mutex_
stop ==
    /\ pc[MAIN] \in {"idle", "stopped"}
    /\ IF running_
       THEN /\ running_' = FALSE
            /\ pc' = [pc EXCEPT ![MAIN] = "st_notify"]
       ELSE /\ pc' = [pc EXCEPT ![MAIN] = "stop_ret"]
            /\ UNCHANGED running_
    /\ UNCHANGED <<riders_, drivers_, drivers_by_cell_, pending_riders_, mutex, frame,
                   now, adds, ticks, scenario, graph_, route_ret>>

\* the return of stop() on a stopped engine
stop_return ==
    /\ pc[MAIN] = "stop_ret"
    /\ pc' = [pc EXCEPT ![MAIN] = "stopped"]
    /\ UNCHANGED <<riders_, drivers_, drivers_by_cell_, pending_riders_, mutex, frame,
                   now, adds, ticks, scenario, running_, graph_, route_ret>>

\* processed_cv.notify_all() for every rider, under riders_mutex_
stop_notify ==
    /\ pc[MAIN] = "st_notify"
    /\ IsFree({"riders_mutex_"})
    /\ pc' = [pc EXCEPT ![MAIN] = "st_join"]
    /\ UNCHANGED <<riders_, drivers_, drivers_by_cell_, pending_riders_, mutex, frame,
                   now, adds, ticks, scenario, running_, graph_, route_ret>>

\* thread.join() for each worker returns once the worker has left its loop
stop_join_workers ==
    /\ pc[MAIN] = "st_join"
    /\ \A w \in Workers : pc[w] = "wk_done"
    /\ pc' = [pc EXCEPT ![MAIN] = "st_join_timeout"]
    /\ UNCHANGED <<riders_, drivers_, drivers_by_cell_, pending_riders_, mutex, frame,
                   now, adds, ticks, scenario, running_, graph_, route_ret>>

\* timeout_thread_.join(), and stop() returns
stop_join_timeout ==
    /\ pc[MAIN] = "st_join_timeout"
    /\ pc[TK] = "tk_done"
    /\ pc' = [pc EXCEPT ![MAIN] = "stopped"]
    /\ UNCHANGED <<riders_, drivers_, drivers_by_cell_, pending_riders_, mutex, frame,
                   now, adds, ticks, scenario, running_, graph_, route_ret>>

\* matching_worker finds running_ false at the top of its loop and returns
worker_exit(w) ==
    /\ pc[w] = "wk_top"
    /\ ~running_
    /\ pc' = [pc EXCEPT ![w] = "wk_done"]
    /\ UNCHANGED <<riders_, drivers_, drivers_by_cell_, pending_riders_, mutex, frame,
                   now, adds, ticks, scenario, running_, graph_, route_ret>>

\* timeout_worker finds running_ false at the top of its loop and returns
timeout_exit ==
    /\ pc[TK] = "tk_sleep"
    /\ ~running_
    /\ pc' = [pc EXCEPT ![TK] = "tk_done"]
    /\ UNCHANGED <<riders_, drivers_, drivers_by_cell_, pending_riders_, mutex, frame,
                   now, adds, ticks, scenario, running_, graph_, route_ret>>

\* the engine with stop(): one client, one rider id, one driver id
StopInit ==
    /\ riders_ = <<>>
    /\ drivers_ = <<>>
    /\ drivers_by_cell_ = <<>>
    /\ pending_riders_ = <<>>
    /\ mutex = [m \in Mutexes |-> Free]
    /\ pc = [t \in Threads |->
                IF t \in Workers THEN "wk_top" ELSE IF t = TK THEN "tk_sleep" ELSE "idle"]
    /\ frame = [t \in Threads |-> NoFrame]
    /\ now = 0
    /\ adds = 0
    /\ ticks = 0
    /\ scenario = [clients |-> {"c1"}, riders |-> {1}, drivers |-> {1},
                   asks |-> {1}, bids |-> {1}, locs |-> {0}]
    /\ running_ = TRUE
    /\ graph_ = NoRouter
    /\ route_ret = NoCall

StopNext ==
    \/ Next
    \/ start
    \/ start_return
    \/ stop
    \/ stop_return
    \/ stop_notify
    \/ stop_join_workers
    \/ stop_join_timeout
    \/ \E w \in Workers : worker_exit(w)
    \/ timeout_exit

\* what a thread does once it is in a call or in its loop; whether and when a
\* client calls the API, or the owner calls stop(), is up to them
ClientStep(t) ==
    \/ add_rider_push(t)
    \/ add_rider_exists(t)
    \/ add_driver_index(t)
    \/ add_driver_exists(t)
    \/ driver_accept_locked(t)
    \/ driver_accept_return(t)
    \/ cleanup_after_match(t)
    \/ driver_cancel_erase(t)
    \/ rider_cancel_sweep(t)

WorkerStep(w) ==
    \/ worker_dequeue(w)
    \/ worker_get_rider(w)
    \/ worker_lock_cells(w)
    \/ worker_find(w)
    \/ send_offers(w)
    \/ mark_rider_processed(w)
    \/ worker_exit(w)

TimeoutStep ==
    \/ timeout_scan
    \/ \E r \in RiderIds : rider_cancel(TK, r)
    \/ rider_cancel_sweep(TK)
    \/ timeout_exit

StopStep ==
    \/ start_return
    \/ stop_notify
    \/ stop_join_workers
    \/ stop_join_timeout
    \/ stop_return

\* fair scheduling: a thread that can take its next step again and again takes
\* it (a mutex that is free again and again is acquired), and the clock advances
Fairness ==
    /\ \A t \in Clients : SF_vars(ClientStep(t))
    /\ \A w \in Workers : SF_vars(WorkerStep(w))
    /\ SF_vars(TimeoutStep)
    /\ SF_vars(StopStep)
    /\ WF_vars(Tick)

StopSpec == StopInit /\ [][StopNext]_vars /\ Fairness

\* ------------------------------------------- one rider among many drivers
\* The engine after add_driver for a set of drivers, in the order of their ids,
\* and add_rider(1, ...): the drivers are registered and indexed, the rider is
\* registered and queued, and no call is in progress.  The worker does the rest.
RECURSIVE Ascending(_)
Ascending(S) ==
    IF S = {} THEN <<>>
    ELSE LET m == CHOOSE x \in S : \A y \in S : x <= y
         IN <<m>> \o Ascending(S \ {m})

IndexOf(drv) ==
    [cell \in {location_to_h3(drv[d].loc) : d \in DOMAIN drv} |->
        Ascending({d \in DOMAIN drv : location_to_h3(drv[d].loc) = cell})]

ManyDriversInit ==
    /\ \E S \in SUBSET (1..MaxDrivers) :
          drivers_ \in [S -> {Driver(ask, loc) : ask \in Asks, loc \in {0, 1}}]
    /\ \E bid \in Bids : riders_ = (1 :> Rider(bid, 0))
    /\ drivers_by_cell_ = IndexOf(drivers_)
    /\ pending_riders_ = <<1>>
    /\ mutex = [m \in Mutexes |-> Free]
    /\ pc = [t \in Threads |->
                IF t \in Workers THEN "wk_top" ELSE IF t = TK THEN "tk_sleep" ELSE "idle"]
    /\ frame = [t \in Threads |-> NoFrame]
    /\ now = 0
    /\ adds = Cardinality(DOMAIN drivers_) + 1
    /\ ticks = 0
    /\ scenario = [clients |-> {}, riders |-> {1}, drivers |-> 1..MaxDrivers,
                   asks |-> Asks, bids |-> Bids, locs |-> {0, 1}]
    /\ running_ = TRUE
    /\ graph_ = NoRouter
    /\ route_ret = NoCall

WorkerNext ==
    \/ \E w \in Workers : worker_dequeue(w)
    \/ \E w \in Workers : worker_get_rider(w)
    \/ \E w \in Workers : worker_lock_cells(w)
    \/ \E w \in Workers : worker_find(w)
    \/ \E w \in Workers : send_offers(w)
    \/ \E w \in Workers : mark_rider_processed(w)

ManyDriversSpec == ManyDriversInit /\ [][WorkerNext]_vars

\* ------------------------------------- drivers with pairwise different asks
\* The engine after add_driver for MaxDrivers drivers at the rider's location,
\* whose asks are 1..MaxDrivers in some order, and add_rider(1, MaxDrivers, ...):
\* every driver is eligible.  The worker does the rest.
DistinctAsksInit ==
    /\ \E asks \in {f \in [1..MaxDrivers -> 1..MaxDrivers] :
                        \A i, j \in 1..MaxDrivers : f[i] = f[j] => i = j} :
          drivers_ = [d \in 1..MaxDrivers |-> Driver(asks[d], 0)]
    /\ riders_ = (1 :> Rider(MaxDrivers, 0))
    /\ drivers_by_cell_ = IndexOf(drivers_)
    /\ pending_riders_ = <<1>>
    /\ mutex = [m \in Mutexes |-> Free]
    /\ pc = [t \in Threads |->
                IF t \in Workers THEN "wk_top" ELSE IF t = TK THEN "tk_sleep" ELSE "idle"]
    /\ frame = [t \in Threads |-> NoFrame]
    /\ now = 0
    /\ adds = MaxDrivers + 1
    /\ ticks = 0
    /\ scenario = [clients |-> {}, riders |-> {1}, drivers |-> 1..MaxDrivers,
                   asks |-> 1..MaxDrivers, bids |-> {MaxDrivers}, locs |-> {0}]
    /\ running_ = TRUE
    /\ graph_ = NoRouter
    /\ route_ret = NoCall

DistinctAsksSpec == DistinctAsksInit /\ [][WorkerNext]_vars

\* --------------------------------------------- the worker behind a router
MaxRoadEdges == 2     \* edges of the road graph behind the matching engine

\* the edges between the two nodes of the road, ids being edge indices
RECURSIVE RoadEdges(_)
RoadEdges(n) ==
    IF n = 0 THEN {<<>>}
    ELSE RoadEdges(n - 1) \cup
         {Append(es, Edge(Len(es), from, 1 - from, weight)) :
             es \in {q \in RoadEdges(n - 1) : Len(q) = n - 1},
             from \in {0, 1}, weight \in {1, 3}}

\* a road with a node at 0 and a node at 2, or a graph without nodes
RoadGraphs ==
    {[nodes |-> <<>>, edges |-> <<>>]} \cup
    {[nodes |-> <<Node(0), Node(2)>>, edges |-> es] : es \in RoadEdges(MaxRoadEdges)}

\* The engine with a router, after add_driver for a set of drivers standing on
\* the nodes of the road and add_rider(1, ...) at node 0.  The worker does the rest.
RoutedInit ==
    /\ \E S \in SUBSET DriverIds :
          drivers_ \in [S -> {Driver(ask, loc) : ask \in Asks, loc \in {0, 2}}]
    /\ \E bid \in Bids : riders_ = (1 :> Rider(bid, 0))
    /\ drivers_by_cell_ = IndexOf(drivers_)
    /\ pending_riders_ = <<1>>
    /\ mutex = [m \in Mutexes |-> Free]
    /\ pc = [t \in Threads |->
                IF t \in Workers THEN "wk_top" ELSE IF t = TK THEN "tk_sleep" ELSE "idle"]
    /\ frame = [t \in Threads |-> NoFrame]
    /\ now = 0
    /\ adds = Cardinality(DOMAIN drivers_) + 1
    /\ ticks = 0
    /\ scenario = [clients |-> {}, riders |-> {1}, drivers |-> DriverIds,
                   asks |-> Asks, bids |-> Bids, locs |-> {0, 2}]
    /\ running_ = TRUE
    /\ graph_ \in RoadGraphs
    /\ route_ret = NoCall

RoutedSpec == RoutedInit /\ [][WorkerNext]_vars

\* ------------------------------------------------------ the routing engine
MaxEdges == 3         \* edges of a graph handed to the RoutingEngine

\* the latitudes of the nodes, by node index
Layouts == {<<>>, <<0>>, <<0, 0>>, <<0, 6>>, <<0, 6, 1>>}

Weights == {1, 3}

\* the latitudes of the points passed to route and update_edge
QueryLats == {0, 1, 4}

\* the edge lists add_edge builds between different nodes of n, with at most k
\* edges: the first id is 0 and an edge carries the id of the edge before it
\* (as the two directions of a two-way road do) or the next id
RECURSIVE EdgeLists(_, _)
EdgeLists(n, k) ==
    IF k = 0 THEN {<<>>}
    ELSE LET shorter == EdgeLists(n, k - 1)
         IN shorter \cup
            UNION {{Append(es, Edge(id, ends[1], ends[2], weight)) :
                       id \in (IF es = <<>> THEN {0}
                               ELSE {es[Len(es)].id, es[Len(es)].id + 1}),
                       ends \in {e \in (0..(n - 1)) \X (0..(n - 1)) : e[1] # e[2]},
                       weight \in Weights}
                   : es \in {q \in shorter : Len(q) = k - 1}}

Graphs ==
    UNION {{[nodes |-> [i \in 1..Len(lats) |-> Node(lats[i])], edges |-> es] :
               es \in EdgeLists(Len(lats), MaxEdges)}
           : lats \in Layouts}

\* the variables of the matching engine
engine_vars == <<riders_, drivers_, drivers_by_cell_, pending_riders_, mutex, pc, frame,
                 now, adds, ticks, scenario, running_>>

\* a RoutingEngine constructed over a graph, with no matching engine started
RouterInit ==
    /\ graph_ \in Graphs
    /\ route_ret = NoCall
    /\ riders_ = <<>>
    /\ drivers_ = <<>>
    /\ drivers_by_cell_ = <<>>
    /\ pending_riders_ = <<>>
    /\ mutex = [m \in Mutexes |-> Free]
    /\ pc = [t \in Threads |-> "idle"]
    /\ frame = [t \in Threads |-> NoFrame]
    /\ now = 0
    /\ adds = 0
    /\ ticks = 0
    /\ scenario = [clients |-> {}, riders |-> {}, drivers |-> {},
                   asks |-> {}, bids |-> {}, locs |-> {}]
    /\ running_ = FALSE

route_distance(lat1, lat2) ==
    /\ \E cost \in route(graph_, lat1, lat2) :
          route_ret' = [called |-> TRUE, lat1 |-> lat1, lat2 |-> lat2, cost |-> cost]
    /\ UNCHANGED <<graph_, engine_vars>>

update_edge_by_coordinates(lat, weight, dir) ==
    /\ graph_' = update_edge_double_double(graph_, lat, weight, dir)
    /\ UNCHANGED <<route_ret, engine_vars>>

update_edge_by_id(id, weight) ==
    /\ graph_' = update_edge_int(graph_, id, weight)
    /\ UNCHANGED <<route_ret, engine_vars>>

update_edge_by_nodes(from, to, weight) ==
    /\ graph_' = update_edge_int_int(graph_, from, to, weight)
    /\ UNCHANGED <<route_ret, engine_vars>>

\* the engine under edge updates
UpdateNext ==
    \/ \E lat \in QueryLats, weight \in Weights, dir \in Directions :
          update_edge_by_coordinates(lat, weight, dir)
    \/ \E id \in -1..MaxEdges, weight \in Weights : update_edge_by_id(id, weight)
    \/ \E from \in 0..Len(graph_.nodes), to \in 0..Len(graph_.nodes), weight \in Weights :
          update_edge_by_nodes(from, to, weight)

UpdateSpec == RouterInit /\ [][UpdateNext]_vars

\* the engine under route queries and the updates by id that reroute them
RouteNext ==
    \/ \E lat1 \in QueryLats, lat2 \in QueryLats : route_distance(lat1, lat2)
    \/ \E id \in -1..MaxEdges, weight \in Weights : update_edge_by_id(id, weight)

RouteSpec == RouterInit /\ [][RouteNext]_vars

\* -------------------------------------------------------------- build_graph
\* the loop over original.neighbors(curr): the unvisited neighbors are marked
\* and queued; st holds visited and the queue q
RECURSIVE Enqueue(_, _)
Enqueue(neighbors, st) ==
    IF neighbors = <<>> THEN st
    ELSE Enqueue(Tail(neighbors),
                 IF Head(neighbors).to \notin st.visited
                 THEN [visited |-> st.visited \cup {Head(neighbors).to},
                       q |-> Append(st.q, Head(neighbors).to)]
                 ELSE st)

\* while (!q.empty()): the component grows by the nodes reached along the edges
\* out of its nodes
RECURSIVE Bfs(_, _, _)
Bfs(original, component, st) ==
    IF st.q = <<>> THEN [component |-> component, visited |-> st.visited]
    ELSE Bfs(original, Append(component, Head(st.q)),
             Enqueue(OutEdges(original, Head(st.q)),
                     [visited |-> st.visited, q |-> Tail(st.q)]))

\* for (int i = 0; i < N; ++i): the components in the order they are found
RECURSIVE ComponentsFrom(_, _, _)
ComponentsFrom(original, i, visited) ==
    IF i >= Len(original.nodes) THEN <<>>
    ELSE IF i \in visited THEN ComponentsFrom(original, i + 1, visited)
    ELSE LET found == Bfs(original, <<>>, [visited |-> visited \cup {i}, q |-> <<i>>])
         IN <<found.component>> \o ComponentsFrom(original, i + 1, found.visited)

\* components[main_idx]: the first component of the greatest size, the empty
\* list when there is no component
MainComponent(original) ==
    LET components == ComponentsFrom(original, 0, {})
    IN IF components = <<>> THEN <<>>
       ELSE components[CHOOSE i \in 1..Len(components) :
                          /\ \A j \in 1..Len(components) :
                                Len(components[j]) <= Len(components[i])
                          /\ \A j \in 1..(i - 1) :
                                Len(components[j]) < Len(components[i])]

\* old_to_new[old_idx]
NewIndex(main_component, old_idx) ==
    (CHOOSE k \in 1..Len(main_component) : main_component[k] = old_idx) - 1

\* the edges re-added for the nodes of main_component from position k on,
\* edge_ind being the next id
RECURSIVE FilteredEdges(_, _, _, _)
FilteredEdges(original, main_component, k, edges) ==
    IF k > Len(main_component) THEN edges
    ELSE LET kept == SelectSeq(OutEdges(original, main_component[k]),
                               LAMBDA e : Mem(main_component, e.to))
         IN FilteredEdges(original, main_component, k + 1,
                          edges \o [n \in 1..Len(kept) |->
                                      Edge(Len(edges) + n - 1, k - 1,
                                           NewIndex(main_component, kept[n].to),
                                           kept[n].weight)])

filter_largest_connected_component(original) ==
    LET main_component == MainComponent(original)
    IN [nodes |-> [k \in 1..Len(main_component) |->
                      NodeAt(original, main_component[k])],
        edges |-> FilteredEdges(original, main_component, 1, <<>>)]

\* the last statement of build_graph, on the raw graph of its step 4
build_graph ==
    /\ pc[MAIN] = "bg_filter"
    /\ graph_' = filter_largest_connected_component(graph_)
    /\ pc' = [pc EXCEPT ![MAIN] = "idle"]
    /\ UNCHANGED <<riders_, drivers_, drivers_by_cell_, pending_riders_, mutex, frame,
                   now, adds, ticks, scenario, running_, route_ret>>

\* build_graph has added the nodes and the edges of the ways
BuildInit ==
    /\ graph_ \in Graphs
    /\ route_ret = NoCall
    /\ riders_ = <<>>
    /\ drivers_ = <<>>
    /\ drivers_by_cell_ = <<>>
    /\ pending_riders_ = <<>>
    /\ mutex = [m \in Mutexes |-> Free]
    /\ pc = [t \in Threads |-> IF t = MAIN THEN "bg_filter" ELSE "idle"]
    /\ frame = [t \in Threads |-> NoFrame]
    /\ now = 0
    /\ adds = 0
    /\ ticks = 0
    /\ scenario = [clients |-> {}, riders |-> {}, drivers |-> {},
                   asks |-> {}, bids |-> {}, locs |-> {}]
    /\ running_ = FALSE

BuildSpec == BuildInit /\ [][build_graph]_vars

\* ------------------------------------------------- Graph::add_node/add_edge
MaxNodes == 2

MaxGraphEdges == 2

\* the node add_node stores: node.id = id, node.lat = lat, node.lon = lon
GraphNode(id, lat) == [id |-> id, lat |-> lat, lon |-> 0]

\* add_node has no test on id: the node is appended whatever id is
add_node(id, lat) ==
    /\ pc[MAIN] = "idle"
    /\ Len(graph_.nodes) < MaxNodes
    /\ graph_' = [graph_ EXCEPT !.nodes = Append(@, GraphNode(id, lat))]
    /\ UNCHANGED <<riders_, drivers_, drivers_by_cell_, pending_riders_, mutex, pc, frame,
                   now, adds, ticks, scenario, running_, route_ret>>

\* add_edge guards its endpoints with assert only. With valid endpoints the
\* edge is appended. Otherwise a build with assertions aborts the process, and
\* a build with NDEBUG goes on to edges_.push_back(eptr)
add_edge(id, from, to, weight) ==
    /\ pc[MAIN] = "idle"
    /\ Len(graph_.edges) < MaxGraphEdges
    /\ IF from \in NodeIndices(graph_) /\ to \in NodeIndices(graph_)
       THEN /\ graph_' = [graph_ EXCEPT !.edges = Append(@, Edge(id, from, to, weight))]
            /\ UNCHANGED pc
       ELSE \/ /\ pc' = [pc EXCEPT ![MAIN] = "aborted"]
               /\ UNCHANGED graph_
            \/ /\ graph_' = [graph_ EXCEPT !.edges = Append(@, Edge(id, from, to, weight))]
               /\ UNCHANGED pc
    /\ UNCHANGED <<riders_, drivers_, drivers_by_cell_, pending_riders_, mutex, frame,
                   now, adds, ticks, scenario, running_, route_ret>>

\* Graph(): no node and no edge
GraphInit ==
    /\ graph_ = [nodes |-> <<>>, edges |-> <<>>]
    /\ route_ret = NoCall
    /\ riders_ = <<>>
    /\ drivers_ = <<>>
    /\ drivers_by_cell_ = <<>>
    /\ pending_riders_ = <<>>
    /\ mutex = [m \in Mutexes |-> Free]
    /\ pc = [t \in Threads |-> "idle"]
    /\ frame = [t \in Threads |-> NoFrame]
    /\ now = 0
    /\ adds = 0
    /\ ticks = 0
    /\ scenario = [clients |-> {}, riders |-> {}, drivers |-> {},
                   asks |-> {}, bids |-> {}, locs |-> {}]
    /\ running_ = FALSE

GraphNext ==
    \/ \E id \in 0..MaxNodes, lat \in {0, 2} : add_node(id, lat)
    \/ \E id \in 0..1, from \in 0..MaxNodes, to \in 0..MaxNodes, weight \in Weights :
          add_edge(id, from, to, weight)

GraphSpec == GraphInit /\ [][GraphNext]_vars

\* ------------------------------------------- selection in and out of range
\* drivers 1..n at locations inside the rider's cell (0, 1) and outside its
\* ring disk (4), indexed, and rider 1 at location 0 waiting in the queue
SelectInit ==
    /\ \E n \in 0..MaxDrivers :
          drivers_ \in [1..n -> {Driver(ask, loc) : ask \in Asks, loc \in Locs}]
    /\ \E bid \in Bids : riders_ = (1 :> Rider(bid, 0))
    /\ drivers_by_cell_ = IndexOf(drivers_)
    /\ pending_riders_ = <<1>>
    /\ mutex = [m \in Mutexes |-> Free]
    /\ pc = [t \in Threads |->
                IF t \in Workers THEN "wk_top" ELSE IF t = TK THEN "tk_sleep" ELSE "idle"]
    /\ frame = [t \in Threads |-> NoFrame]
    /\ now = 0
    /\ adds = Cardinality(DOMAIN drivers_) + 1
    /\ ticks = 0
    /\ scenario = [clients |-> {}, riders |-> {1}, drivers |-> 1..MaxDrivers,
                   asks |-> Asks, bids |-> Bids, locs |-> Locs]
    /\ running_ = TRUE
    /\ graph_ = NoRouter
    /\ route_ret = NoCall

SelectSpec == SelectInit /\ [][WorkerNext]_vars

\* ============================================================== claims
\* thread t's driver_accept passes or fails its checks in this step
Decides(t) == pc[t] = "da_lock" /\ pc'[t] # "da_lock"
Commits(t) == pc[t] = "da_lock" /\ pc'[t] = "da_cleanup"

AcceptPrecondition(d, r) ==
    /\ d \in DOMAIN drivers_
    /\ r \in DOMAIN riders_
    /\ Mem(drivers_[d].inbox, r)
    /\ drivers_[d].state = "OPEN"
    /\ riders_[r].state = "OPEN"

\* no API call, worker iteration or timeout cancellation is in progress and the
\* pending queue is empty
Quiescent ==
    /\ \A t \in Clients : pc[t] = "idle"
    /\ \A w \in Workers : pc[w] = "wk_top"
    /\ pc[TK] = "tk_sleep"
    /\ pending_riders_ = <<>>

\* C1: driver_accept(d, r) commits the match (both states become MATCHED) if and
\* only if, when it runs, d is registered, r is registered, r is in d's inbox and
\* both are OPEN; otherwise it changes neither registry nor the index.
C1_AcceptIff ==
    [][\A t \in Clients :
          Decides(t) =>
             LET d == frame[t].driver_id
                 r == frame[t].rider_id
             IN /\ Commits(t) <=> AcceptPrecondition(d, r)
                /\ Commits(t) => /\ drivers_'[d].state = "MATCHED"
                                 /\ riders_'[r].state = "MATCHED"
                /\ ~Commits(t) => UNCHANGED <<riders_, drivers_, drivers_by_cell_>>]_vars

\* a driver_accept has committed: both parties are MATCHED, cleanup is next
C1_Witness ==
    \E t \in Clients :
        /\ pc[t] = "da_cleanup"
        /\ drivers_[frame[t].driver_id].state = "MATCHED"
        /\ riders_[frame[t].rider_id].state = "MATCHED"

\* C2: every match driver_accept commits pairs a driver and a rider whose
\* current records satisfy driver.ask <= rider.bid.
C2_MatchWithinBid ==
    [][\A t \in Clients :
          Commits(t) =>
             drivers_[frame[t].driver_id].ask <= riders_[frame[t].rider_id].bid]_vars

\* C3: of the driver_accept calls pending at once from different drivers for one
\* rider, each of which would succeed alone, the one that runs first commits and
\* the others can then no longer succeed; a commit takes the rider from OPEN to
\* MATCHED and a MATCHED rider never is OPEN again, so a rider is matched with at
\* most one driver.
C3_OneWinner ==
    [][/\ \A t \in Clients :
            Decides(t) =>
               LET d == frame[t].driver_id
                   r == frame[t].rider_id
               IN /\ Commits(t) => /\ riders_[r].state = "OPEN"
                                   /\ riders_'[r].state = "MATCHED"
                  /\ \A u \in Clients \ {t} :
                        ( /\ pc[u] = "da_lock"
                          /\ frame[u].rider_id = r
                          /\ frame[u].driver_id # d
                          /\ AcceptOutcome(d, r) = "MATCH"
                          /\ AcceptOutcome(frame[u].driver_id, r) = "MATCH" )
                        => /\ Commits(t)
                           /\ AcceptOutcome(frame[u].driver_id, frame[u].rider_id)' # "MATCH"
       /\ \A r \in DOMAIN riders_ :
            riders_[r].state = "MATCHED" =>
               (r \notin DOMAIN riders_' \/ riders_'[r].state = "MATCHED")]_vars

\* one driver has won the rider while another driver's accept of the same
\* rider, offered to it as well, is still waiting for the locks
C3_Witness ==
    \E t, u \in Clients :
        /\ pc[t] = "da_cleanup"
        /\ pc[u] = "da_lock"
        /\ frame[u].rider_id = frame[t].rider_id
        /\ frame[u].driver_id # frame[t].driver_id
        /\ frame[u].driver_id \in DOMAIN drivers_
        /\ drivers_[frame[u].driver_id].state = "OPEN"
        /\ Mem(drivers_[frame[u].driver_id].inbox, frame[u].rider_id)

\* the mutexes thread t is waiting for at its position
Waits(t) ==
    CASE pc[t] \in {"ad_cells", "da_cleanup", "dc_cells", "wk_cells"} -> {"cells_mutex_"}
      [] pc[t] \in {"da_lock", "wk_send"} -> {"riders_mutex_", "drivers_mutex_"}
      [] pc[t] \in {"rc_sweep", "wk_find"} -> {"drivers_mutex_"}
      [] pc[t] \in {"wk_get", "wk_mark", "tk_cancel"} -> {"riders_mutex_"}
      [] OTHER -> {}

\* every thread of S waits for a mutex held by another thread of S
DeadlockedSet(S) ==
    /\ S # {}
    /\ \A t \in S : \E m \in Waits(t) : mutex[m] \in S \ {t}

\* C4: no reachable state has a set of threads each waiting for a mutex held by
\* another thread of the set.
C4_NoDeadlock == ~ \E S \in SUBSET Threads : DeadlockedSet(S)

\* C5: for every registered driver D and registered rider R with R in D.inbox,
\* D.ask <= R.bid.
C5_PriceBound ==
    \A d \in DOMAIN drivers_, r \in DOMAIN riders_ :
        Mem(drivers_[d].inbox, r) => drivers_[d].ask <= riders_[r].bid

NoCancelOrAcceptInProgress ==
    /\ \A t \in Clients : pc[t] \notin {"rc_sweep", "da_lock", "da_cleanup", "da_fail"}
    /\ pc[TK] = "tk_sleep"

InboxesRegistered ==
    NoCancelOrAcceptInProgress =>
        \A d \in DOMAIN drivers_ : \A i \in 1..Len(drivers_[d].inbox) :
            drivers_[d].inbox[i] \in DOMAIN riders_

\* C6: whenever no rider_cancel, timeout cancellation or driver_accept is in
\* progress, every id in every inbox is a registered rider; and a worker appends
\* a rider's id to an inbox only while that rider is registered and OPEN.
C6_InboxRegistry ==
    [][/\ InboxesRegistered'
       /\ \A w \in Workers :
            (pc[w] = "wk_send" /\ pc'[w] = "wk_mark" /\ drivers_' # drivers_)
            => /\ frame[w].rider_id \in DOMAIN riders_
               /\ riders_[frame[w].rider_id].state = "OPEN"]_vars

\* C7: a failed driver_accept leaves the registries, the index, the inboxes, the
\* pending lists and the queue as they were, from its checks to its return, and
\* its driver, if registered, stays registered and OPEN.
C7_FailedAcceptNoChange ==
    [][\A t \in Clients :
          ( \/ pc[t] = "da_lock" /\ pc'[t] = "da_fail"
            \/ pc[t] = "da_fail" /\ pc'[t] = "idle" )
          => /\ UNCHANGED <<riders_, drivers_, drivers_by_cell_, pending_riders_>>
             /\ frame[t].driver_id \in DOMAIN drivers_ =>
                   /\ frame[t].driver_id \in DOMAIN drivers_'
                   /\ drivers_'[frame[t].driver_id].state = "OPEN"]_vars

\* a driver_accept failed because its rider is gone; its driver is registered
C7_Witness ==
    \E t \in Clients :
        /\ pc[t] = "da_fail"
        /\ frame[t].result = "NOT_FOUND"
        /\ frame[t].driver_id \in DOMAIN drivers_
        /\ frame[t].rider_id \notin DOMAIN riders_

\* C8: in every quiescent state, every registered driver whose inbox holds a
\* registered rider's id is listed in that rider's pending_drivers.
C8_ReciprocityForward ==
    Quiescent =>
        \A r \in DOMAIN riders_, d \in DOMAIN drivers_ :
            Mem(drivers_[d].inbox, r) => Mem(riders_[r].pending_drivers, d)

\* C9: in every quiescent state, every driver listed in a registered rider's
\* pending_drivers that is registered and OPEN has the rider's id in its inbox.
C9_ReciprocityConverse ==
    Quiescent =>
        \A r \in DOMAIN riders_, d \in DOMAIN drivers_ :
            (Mem(riders_[r].pending_drivers, d) /\ drivers_[d].state = "OPEN")
            => Mem(drivers_[d].inbox, r)

\* C10: when driver_cancel, or the cleanup of a successful driver_accept, has
\* removed a driver, no rider left in the registry lists it in pending_drivers.
C10_NoStalePending ==
    [][\A t \in Clients :
          (pc[t] \in {"dc_cells", "da_cleanup"} /\ pc'[t] = "idle")
          => \A r \in DOMAIN riders_' :
                ~Mem(riders_'[r].pending_drivers, frame[t].driver_id)]_vars

\* C17: while the engine runs, under fair scheduling, a rider id in the pending
\* queue is eventually dequeued by a worker, and a worker that found the rider it
\* dequeued registered and OPEN eventually has run find_k_closest_drivers and
\* send_offers for it and marks it processed.
C17_QueuedRiderProcessed ==
    /\ \A r \in RiderIds :
          (running_ /\ Mem(pending_riders_, r))
             ~> (~running_ \/ \E w \in Workers : pc[w] = "wk_get" /\ frame[w].rider_id = r)
    /\ \A w \in Workers : (pc[w] = "wk_cells") ~> (pc[w] = "wk_mark")

\* C18: once stop() is called, under fair scheduling, every worker and the
\* timeout thread eventually leave their loops and stop() returns.
C18_StopReturns ==
    (pc[MAIN] = "st_notify")
       ~> ( /\ pc[MAIN] = "stopped"
            /\ \A w \in Workers : pc[w] = "wk_done"
            /\ pc[TK] = "tk_done" )

\* C19: while the engine runs, under fair scheduling, a rider that has been OPEN
\* for TIMEOUT_SEC is eventually out of the registry, and the cancellation the
\* timeout thread issues for it completes its sweep of the inboxes.
C19_TimeoutRemoves ==
    /\ \A r \in RiderIds :
          (running_ /\ r \in Expired) ~> (~running_ \/ r \notin DOMAIN riders_)
    /\ (pc[TK] = "rc_sweep") ~> (pc[TK] # "rc_sweep")

\* the number of entries of cell's vector that are id
Occurrences(cell, id) ==
    Cardinality({i \in 1..Len(drivers_by_cell_[cell]) : drivers_by_cell_[cell][i] = id})

\* C11: in every quiescent state the ids in the cells of the index are exactly
\* the registered drivers, and each registered driver is listed once, in the cell
\* of its stored location and in no other.
C11_IndexConsistent ==
    Quiescent =>
        /\ \A cell \in DOMAIN drivers_by_cell_ :
              \A i \in 1..Len(drivers_by_cell_[cell]) :
                 drivers_by_cell_[cell][i] \in DOMAIN drivers_
        /\ \A d \in DOMAIN drivers_ :
              /\ location_to_h3(drivers_[d].loc) \in DOMAIN drivers_by_cell_
              /\ \A cell \in DOMAIN drivers_by_cell_ :
                    Occurrences(cell, d) =
                       IF cell = location_to_h3(drivers_[d].loc) THEN 1 ELSE 0

\* quiescent, with driver 2 indexed in one cell and the cell of driver 1, which
\* was cancelled or matched, left empty
C11_Witness ==
    /\ Quiescent
    /\ DOMAIN drivers_ = {2}
    /\ \E c1, c2 \in DOMAIN drivers_by_cell_ :
          /\ c1 # c2
          /\ drivers_by_cell_[c1] = <<>>
          /\ drivers_by_cell_[c2] = <<2>>

\* C12: whenever riders_mutex_ and drivers_mutex_ are free, every registered
\* rider and every registered driver is OPEN: an entity that was marked MATCHED,
\* CANCELLED or TIMEOUT is erased before the lock it was marked under is released.
C12_RegistryOpen ==
    IsFree({"riders_mutex_", "drivers_mutex_"}) =>
        /\ \A r \in DOMAIN riders_ : riders_[r].state = "OPEN"
        /\ \A d \in DOMAIN drivers_ : drivers_[d].state = "OPEN"

\* driver_cancel has marked its driver CANCELLED and still holds drivers_mutex_;
\* the record is in the registry until the call erases it
C12_Witness ==
    \E t \in Clients :
        /\ pc[t] = "dc_cells"
        /\ mutex["drivers_mutex_"] = t
        /\ drivers_[frame[t].driver_id].state = "CANCELLED"
        /\ riders_ # <<>>

\* C13: a driver is matched with at most one rider.  A commit takes its driver
\* from OPEN to MATCHED and a MATCHED driver is never OPEN again; when the
\* cleanup of driver_accept(d, r) returns, d is not registered, so that
\* driver_accept(d, r2) fails with NOT_FOUND for every other rider r2 that lists d
\* in pending_drivers, and r2 stays registered and OPEN; a driver_accept whose
\* driver is not registered fails and changes no rider.
C13_DriverMatchedOnce ==
    [][/\ \A t \in Clients :
            Commits(t) => /\ drivers_[frame[t].driver_id].state = "OPEN"
                          /\ drivers_'[frame[t].driver_id].state = "MATCHED"
       /\ \A d \in DOMAIN drivers_ :
            drivers_[d].state = "MATCHED" =>
               (d \notin DOMAIN drivers_' \/ drivers_'[d].state = "MATCHED")
       /\ \A t \in Clients :
            (pc[t] = "da_cleanup" /\ pc'[t] = "idle") =>
               LET d == frame[t].driver_id
                   r == frame[t].rider_id
               IN /\ d \notin DOMAIN drivers_'
                  /\ \A r2 \in (DOMAIN riders_) \ {r} :
                        Mem(riders_[r2].pending_drivers, d) =>
                           /\ r2 \in DOMAIN riders_'
                           /\ riders_'[r2] = riders_[r2]
                           /\ riders_'[r2].state = "OPEN"
                           /\ AcceptOutcome(d, r2)' = "NOT_FOUND"
       /\ \A t \in Clients :
            (Decides(t) /\ frame[t].driver_id \notin DOMAIN drivers_) =>
               /\ pc'[t] = "da_fail"
               /\ frame'[t].result = "NOT_FOUND"
               /\ UNCHANGED riders_]_vars

\* driver_accept(d, r) has committed while another registered rider r2 lists d
\* in pending_drivers and is in d's inbox
C13_Witness ==
    \E t \in Clients :
        /\ pc[t] = "da_cleanup"
        /\ \E r2 \in (DOMAIN riders_) \ {frame[t].rider_id} :
              /\ riders_[r2].state = "OPEN"
              /\ Mem(riders_[r2].pending_drivers, frame[t].driver_id)
              /\ Mem(drivers_[frame[t].driver_id].inbox, r2)

\* the registered drivers that pass the filters of find_k_closest_drivers for
\* rider r
EligibleFor(r) ==
    {d \in DOMAIN drivers_ :
        /\ drivers_[d].state = "OPEN"
        /\ drivers_[d].ask <= riders_[r].bid
        /\ Mem(get_neighboring_cells(location_to_h3(riders_[r].loc), 1),
               location_to_h3(drivers_[d].loc))}

\* C14: every rider's pending_drivers has at most K entries, however many
\* eligible drivers are in range.
C14_KBound ==
    \A r \in DOMAIN riders_ : Len(riders_[r].pending_drivers) <= K

\* a rider with more than K eligible drivers in range holds K offers
C14_Witness ==
    \E r \in DOMAIN riders_ :
        /\ Cardinality(EligibleFor(r)) > K
        /\ Len(riders_[r].pending_drivers) = K

\* C15: rider_cancel(r) of a registered rider erases r and nothing else from the
\* rider registry, and its sweep leaves every driver's inbox as it was without
\* the entries equal to r, the others in their order; rider_cancel of an id that
\* is not registered changes nothing.
C15_RiderCancelSweeps ==
    [][\A t \in Clients \cup {TK} :
          /\ (pc[t] \in {"idle", "tk_cancel"} /\ pc'[t] = "rc_sweep") =>
                /\ riders_' = Erase(riders_, frame'[t].rider_id)
                /\ UNCHANGED <<drivers_, drivers_by_cell_, pending_riders_>>
          /\ (pc[t] = "rc_sweep" /\ pc'[t] # "rc_sweep") =>
                /\ DOMAIN drivers_' = DOMAIN drivers_
                /\ \A d \in DOMAIN drivers_ :
                      drivers_'[d] = [drivers_[d] EXCEPT
                                         !.inbox = Remove(@, frame[t].rider_id)]
                /\ UNCHANGED <<riders_, drivers_by_cell_, pending_riders_>>
          /\ ( /\ pc[t] = "tk_cancel"
                /\ pc'[t] \in {"tk_cancel", "tk_sleep"}
                /\ frame'[t].expired # frame[t].expired ) =>
                UNCHANGED <<riders_, drivers_, drivers_by_cell_, pending_riders_>>]_vars

\* C16: an add_rider whose id is registered is rejected, and from its call to
\* its return the rider registry (bid, location, post_time, pending_drivers of
\* every rider), the queue, the driver registry and the index stay as they were;
\* an add_driver whose id is registered is rejected likewise.  An add whose id is
\* not registered is not rejected.
C16_DuplicateAddRejected ==
    [][\A t \in Clients :
          /\ (pc[t] = "idle" /\ pc'[t] \in {"ar_exists", "ar_queue"}) =>
                (pc'[t] = "ar_exists" <=> frame'[t].rider_id \in DOMAIN riders_)
          /\ (pc[t] = "idle" /\ pc'[t] \in {"ad_exists", "ad_cells"}) =>
                (pc'[t] = "ad_exists" <=> frame'[t].driver_id \in DOMAIN drivers_)
          /\ ( \/ (pc[t] = "idle" /\ pc'[t] \in {"ar_exists", "ad_exists"})
               \/ (pc[t] \in {"ar_exists", "ad_exists"} /\ pc'[t] = "idle") ) =>
                /\ UNCHANGED <<riders_, drivers_, drivers_by_cell_, pending_riders_>>
                /\ frame'[t].result = IF pc'[t] = "idle" THEN "" ELSE "ALREADY_EXISTS"]_vars

\* a duplicate add_rider and a duplicate add_driver are being rejected; the
\* rider has offers out and the driver has received one
C16_Witness ==
    \E t, u \in Clients :
        /\ pc[t] = "ar_exists"
        /\ riders_[frame[t].rider_id].pending_drivers # <<>>
        /\ pc[u] = "ad_exists"
        /\ drivers_[frame[u].driver_id].inbox # <<>>

\* the ids listed in a cell of the index cells
IdsIn(cells, cell) == {BucketOf(cells, cell)[i] : i \in 1..Len(BucketOf(cells, cell))}

\* C20: from any reachable state in which driver id d is not registered,
\* add_driver(d, ask, loc) followed at once by driver_cancel(d) gives back the
\* driver registry (so every inbox) and the set of ids of every cell; and no step
\* of add_driver or driver_cancel changes the rider registry (so no
\* pending_drivers list), the queue or the record of another driver.
C20_AddCancelRoundTrip ==
    /\ [](\A d \in DriverIds \ DOMAIN drivers_, ask \in Asks, loc \in Locs :
            LET added == Emplace(drivers_, d, ask, loc)
                indexed == PushCell(drivers_by_cell_, location_to_h3(added[d].loc), d)
                marked == [added EXCEPT ![d].state = "CANCELLED"]
                unindexed == EraseFromCell(indexed, location_to_h3(marked[d].loc), d)
                erased == Erase(marked, d)
            IN /\ erased = drivers_
               /\ \A cell \in DOMAIN unindexed \cup DOMAIN drivers_by_cell_ :
                     IdsIn(unindexed, cell) = IdsIn(drivers_by_cell_, cell))
    /\ [][\A t \in Clients :
            ( \/ (pc[t] = "idle" /\ pc'[t] \in {"ad_cells", "dc_cells"})
              \/ (pc[t] \in {"ad_cells", "dc_cells"} /\ pc'[t] = "idle") ) =>
               /\ UNCHANGED <<riders_, pending_riders_>>
               /\ \A d \in (DOMAIN drivers_) \ {frame[t].driver_id, frame'[t].driver_id} :
                     d \in DOMAIN drivers_' /\ drivers_'[d] = drivers_[d]]_vars

\* driver 2 is not registered and the cell it was added to and removed from is
\* empty again; driver 1 is indexed in another cell and holds an offer
C20_Witness ==
    /\ DOMAIN drivers_ = {1}
    /\ drivers_[1].inbox # <<>>
    /\ riders_ # <<>>
    /\ \E cell \in DOMAIN drivers_by_cell_ :
          /\ cell # location_to_h3(drivers_[1].loc)
          /\ drivers_by_cell_[cell] = <<>>

\* the threads of the engine that have not returned
LiveThreads == {t \in Workers \cup {TK} : pc[t] \notin {"wk_done", "tk_done"}}

\* a step of start() called on a running engine or of stop() called on a
\* stopped one: the call, or its return
RepeatedCall ==
    \/ pc[MAIN] = "idle" /\ pc'[MAIN] = "start_ret"
    \/ pc[MAIN] = "start_ret" /\ pc'[MAIN] = "idle"
    \/ pc[MAIN] = "stopped" /\ pc'[MAIN] = "stop_ret"
    \/ pc[MAIN] = "stop_ret" /\ pc'[MAIN] = "stopped"

\* C21: start() on a running engine and stop() on a stopped engine are no-ops:
\* the worker threads, the timekeeper, the running flag, the registries, the
\* cell index and the queue are the same after the repeated call as before it.
C21_RepeatedStartStopNoOp ==
    [][RepeatedCall =>
          /\ LiveThreads' = LiveThreads
          /\ \A t \in Workers \cup {TK} : pc'[t] = pc[t]
          /\ UNCHANGED <<running_, riders_, drivers_, drivers_by_cell_,
                         pending_riders_>>]_vars

\* stop() was called on a stopped engine that holds a rider
C21_Witness ==
    /\ pc[MAIN] = "stop_ret"
    /\ ~running_
    /\ riders_ # <<>>

\* the registered driver d is one the router reports no path to from rider r
Unreachable(r, d) ==
    /\ graph_ # NoRouter
    /\ Infinity \in route(graph_, riders_[r].loc, drivers_[d].loc)

\* C22: a driver to which the routing engine reports no path from the rider
\* (route cost +infinity) is not a candidate: it is never in the rider's
\* pending_drivers and the rider is never in its inbox.
C22_UnreachableNotCandidate ==
    \A r \in DOMAIN riders_ : \A d \in DOMAIN drivers_ :
        Unreachable(r, d) =>
            /\ ~Mem(riders_[r].pending_drivers, d)
            /\ ~Mem(drivers_[d].inbox, r)

\* the drivers listed in the pending_drivers of rider r
PendingSet(r) ==
    {riders_[r].pending_drivers[i] : i \in 1..Len(riders_[r].pending_drivers)}

\* C23: with more than K eligible drivers with pairwise different asks at the
\* rider's location, the pending_drivers of the served rider has length K and
\* holds the K drivers with the lowest asks, whatever their ids.
C23_CheapestFirst ==
    \A r \in DOMAIN riders_ :
        riders_[r].processed =>
            /\ Len(riders_[r].pending_drivers) = K
            /\ \A d \in PendingSet(r) :
                   \A e \in DOMAIN drivers_ \ PendingSet(r) :
                       drivers_[d].ask < drivers_[e].ask

\* graph after is graph before with the weight of exactly the edges of targets
\* (0-based edge indices) set to weight
OnlyWeightsOf(before, after, targets, weight) ==
    /\ after.nodes = before.nodes
    /\ Len(after.edges) = Len(before.edges)
    /\ \A i \in EdgeIndices(before) :
          after.edges[i + 1] = IF i \in targets
                               THEN [before.edges[i + 1] EXCEPT !.weight = weight]
                               ELSE before.edges[i + 1]

\* C24: updating an edge weight by id sets the weight of every edge carrying
\* that id (both directions of a two-way road stored as two edges with one id)
\* and of no other edge; an id carried by no edge changes nothing.
C24_UpdateByIdEveryEdge ==
    \A id \in -1..MaxEdges, weight \in Weights :
        OnlyWeightsOf(graph_, update_edge_weight(graph_, id, weight),
                      {i \in EdgeIndices(graph_) : graph_.edges[i + 1].id = id}, weight)

\* the first edge (0-based index) whose endpoints are (from, to), if any
FirstBetween(graph, from, to) ==
    {i \in EdgeIndices(graph) :
        /\ graph.edges[i + 1].from = from /\ graph.edges[i + 1].to = to
        /\ \A j \in 0..(i - 1) :
              ~(graph.edges[j + 1].from = from /\ graph.edges[j + 1].to = to)}

\* C25: update_edge(from, to, w) sets the weight of exactly the first edge whose
\* endpoints are (from, to) and leaves every other edge as it was, the reverse
\* edge sharing its id included; without such an edge nothing changes.
C25_UpdateByNodesOneEdge ==
    \A from \in 0..Len(graph_.nodes), to \in 0..Len(graph_.nodes), weight \in Weights :
        OnlyWeightsOf(graph_, update_edge_int_int(graph_, from, to, weight),
                      FirstBetween(graph_, from, to), weight)

\* the edges (0-based indices) that pass the direction filter
Passing(graph, dir) ==
    {i \in EdgeIndices(graph) :
        matches_direction(NodeAt(graph, graph.edges[i + 1].from),
                          NodeAt(graph, graph.edges[i + 1].to), dir)}

\* those of them at the least point-to-segment distance among them
NearestPassing(graph, lat, dir) ==
    {i \in Passing(graph, dir) :
        \A j \in Passing(graph, dir) :
            EdgeDistance(graph, lat, i) <= EdgeDistance(graph, lat, j)}

\* C26: update_edge(lat, lon, w, dir) updates exactly the edges that pass the
\* direction filter and are at the minimum point-to-segment distance among
\* the edges that pass it (all ties), and no other edge; BOTH and NONE filter
\* nothing out.
C26_UpdateByCoordinates ==
    /\ \A dir \in {"BOTH", "NONE"} : Passing(graph_, dir) = EdgeIndices(graph_)
    /\ \A lat \in QueryLats, weight \in Weights, dir \in Directions :
          OnlyWeightsOf(graph_, update_edge_double_double(graph_, lat, weight, dir),
                        NearestPassing(graph_, lat, dir), weight)

Least(S) == CHOOSE x \in S : \A y \in S : x <= y

\* the least total weight of a path from s to t with at most k edges, Infinity
\* when there is none
RECURSIVE MinCostWithin(_, _, _, _)
MinCostWithin(graph, s, t, k) ==
    IF k = 0 THEN (IF s = t THEN 0 ELSE Infinity)
    ELSE Least({MinCostWithin(graph, s, t, k - 1)} \cup
               {MinCostWithin(graph, s, graph.edges[i].from, k - 1) + graph.edges[i].weight :
                   i \in {j \in 1..Len(graph.edges) :
                             /\ graph.edges[j].to = t
                             /\ MinCostWithin(graph, s, graph.edges[j].from, k - 1) < Infinity}})

\* the minimum total weight over all directed paths from s to t
MinCost(graph, s, t) == MinCostWithin(graph, s, t, Len(graph.nodes))

\* C27: for every graph with non-negative weights and every pair (start, goal)
\* with goal reachable, AStar::shortest_path returns as total_cost the minimum
\* total weight over all paths from start to goal, whatever the coordinates of
\* the nodes.
C27_AStarOptimal ==
    \A start_idx \in NodeIndices(graph_), goal_idx \in NodeIndices(graph_) :
        MinCost(graph_, start_idx, goal_idx) < Infinity =>
            {result.total_cost : result \in shortest_path(graph_, start_idx, goal_idx)}
               = {MinCost(graph_, start_idx, goal_idx)}

\* the graph without its edge i (0-based)
WithoutEdge(graph, i) ==
    [graph EXCEPT !.edges = SubSeq(@, 1, i) \o SubSeq(@, i + 2, Len(@))]

\* route(A, B) returns the cost C of the shortest path between the nodes
\* nearest to A and B, and every path of that cost goes through edge i
ShortestThrough(graph, lat1, lat2, i, C) ==
    /\ graph.nodes # <<>>
    /\ C = MinCost(graph, find_nearest_node(graph, lat1), find_nearest_node(graph, lat2))
    /\ C < Infinity
    /\ route(graph, lat1, lat2) = {C}
    /\ MinCost(WithoutEdge(graph, i), find_nearest_node(graph, lat1),
               find_nearest_node(graph, lat2)) > C

\* C28: on a graph where the shortest path from A to B has cost C and goes
\* through edge E, after update_edge(E.id, 10 * C) route(A, B) returns a value
\* strictly greater than C, +infinity included.
C28_UpdateReroutes ==
    \A lat1 \in QueryLats, lat2 \in QueryLats, i \in EdgeIndices(graph_) :
        \A C \in 0..(Len(graph_.nodes) * 3) :
            ShortestThrough(graph_, lat1, lat2, i, C) =>
                \A cost \in route(update_edge_int(graph_, graph_.edges[i + 1].id, 10 * C),
                                  lat1, lat2) : cost > C

\* C29: route returns -1 exactly when the graph has no nodes, +infinity when
\* no directed path joins the nodes nearest to the two endpoints, and a finite
\* non-negative cost otherwise.
C29_RouteResult ==
    route_ret.called =>
        LET start_idx == find_nearest_node(graph_, route_ret.lat1)
            goal_idx == find_nearest_node(graph_, route_ret.lat2)
        IN /\ route_ret.cost = -1 <=> graph_.nodes = <<>>
           /\ graph_.nodes # <<>> =>
                 IF MinCost(graph_, start_idx, goal_idx) = Infinity
                 THEN route_ret.cost = Infinity
                 ELSE route_ret.cost >= 0 /\ route_ret.cost < Infinity

\* route has returned +infinity between two nodes of a graph that has edges
C29_Witness ==
    /\ route_ret.called
    /\ route_ret.cost = Infinity
    /\ graph_.edges # <<>>

\* the nodes joined to the nodes of S by edges taken in either direction
RECURSIVE WeaklyConnected(_, _)
WeaklyConnected(graph, S) ==
    LET next == S \cup {graph.edges[i].to : i \in {j \in 1..Len(graph.edges) :
                                                    graph.edges[j].from \in S}}
                   \cup {graph.edges[i].from : i \in {j \in 1..Len(graph.edges) :
                                                      graph.edges[j].to \in S}}
    IN IF next = S THEN S ELSE WeaklyConnected(graph, next)

\* the weakly connected components of the greatest size
LargestWeakComponents(graph) ==
    LET all == {WeaklyConnected(graph, {i}) : i \in NodeIndices(graph)}
    IN {W \in all : \A V \in all : Cardinality(V) <= Cardinality(W)}

\* C30: the graph build_graph returns consists of exactly the nodes of the
\* largest weakly connected component of the raw graph (edge direction
\* ignored) and of every raw edge between those nodes, one-way edges included.
C30_LargestWeakComponent ==
    [][(pc[MAIN] = "bg_filter" /\ pc'[MAIN] = "idle" /\ graph_.nodes # <<>>) =>
          \E W \in LargestWeakComponents(graph_) :
              /\ {MainComponent(graph_)[k] : k \in 1..Len(MainComponent(graph_))} = W
              /\ Len(graph_'.nodes) = Cardinality(W)
              /\ \A k \in 1..Len(graph_'.nodes) :
                    graph_'.nodes[k] = NodeAt(graph_, MainComponent(graph_)[k])
              /\ Len(graph_'.edges) =
                    Cardinality({i \in EdgeIndices(graph_) :
                                    /\ graph_.edges[i + 1].from \in W
                                    /\ graph_.edges[i + 1].to \in W})]_vars

\* C31: a node is stored only under the id equal to the node count at the
\* time of the call, so every stored node's id equals its index, and an edge
\* is stored only between valid node indices: 0 <= from, to < |nodes|.
C31_DenseIdsValidEndpoints ==
    /\ \A i \in NodeIndices(graph_) : NodeAt(graph_, i).id = i
    /\ \A i \in 1..Len(graph_.edges) :
          /\ graph_.edges[i].from \in NodeIndices(graph_)
          /\ graph_.edges[i].to \in NodeIndices(graph_)

\* worker w emits the offers for its rider in this step
Sends(w) == pc[w] = "wk_send" /\ pc'[w] = "wk_mark"

\* C32: scoring and inbox append are one atomic step with respect to drivers:
\* when a worker appends the rider's id to the inboxes, every driver it
\* selected for that rider is still registered and OPEN (it was not cancelled
\* or matched since it was scored).
C32_SelectedStillRegistered ==
    [][\A w \in Workers :
          Sends(w) =>
             \A i \in 1..Len(frame[w].ids) :
                /\ frame[w].ids[i] \in DOMAIN drivers_
                /\ drivers_[frame[w].ids[i]].state = "OPEN"]_vars

\* the timeout_worker erases the rider at the head of expired_riders in this step
TimesOut == pc[TK] = "tk_cancel" /\ pc'[TK] = "rc_sweep"

\* C33: the timekeeper removes a rider only if that rider is OPEN and has been
\* posted for at least TIMEOUT_SEC, counted from its own post_time, whatever
\* rider_cancel and add_rider calls on the same id run between the scan and
\* the cancel.
C33_TimeoutOnlyExpired ==
    [][TimesOut =>
          LET r == Head(frame[TK].expired)
          IN /\ riders_[r].state = "OPEN"
             /\ now - riders_[r].post_time >= TIMEOUT_SEC]_vars

\* the distance find_k_closest_drivers scores driver d with for rider r
DistanceTo(r, d) == calculate_distance(riders_[r].loc, drivers_[d].loc)

\* the drivers find_k_closest_drivers is to choose from for rider r: eligible
\* and at a non-negative distance
CandidatesFor(r) == {d \in EligibleFor(r) : DistanceTo(r, d) >= 0}

\* worker w computes the candidates of its rider in this step
Selects(w) == pc[w] = "wk_find" /\ pc'[w] \in {"wk_send", "wk_mark"}

\* C34: the drivers a worker selects for a rider are registered, OPEN, in the
\* radius-1 ring disk of the rider's cell, with ask <= bid and a non-negative
\* distance; they are min(K, n) of the n such drivers, none of the drivers left
\* out is strictly nearer than a selected one, and the list, which send_offers
\* stores as pending_drivers, is in ascending distance.
C34_SelectsNearestEligible ==
    [][\A w \in Workers :
          LET r == frame[w].rider_id
          IN /\ Selects(w) =>
                  LET sel == frame'[w].ids
                      chosen == {sel[i] : i \in 1..Len(sel)}
                      n == Cardinality(CandidatesFor(r))
                  IN /\ chosen \subseteq CandidatesFor(r)
                     /\ Len(sel) = IF K < n THEN K ELSE n
                     /\ Cardinality(chosen) = Len(sel)
                     /\ \A d \in CandidatesFor(r) \ chosen, s \in chosen :
                           ~(DistanceTo(r, d) < DistanceTo(r, s))
                     /\ \A i, j \in 1..Len(sel) :
                           i < j => DistanceTo(r, sel[i]) <= DistanceTo(r, sel[j])
             /\ Sends(w) => riders_'[r].pending_drivers = frame[w].ids]_vars

\* the worker has selected K drivers at two different distances and stored
\* them, while a nearer-or-equal eligible driver, a driver outside the ring
\* disk or a driver asking too much was left out
C34_Witness ==
    \E w \in Workers :
        /\ pc[w] = "wk_mark"
        /\ Len(riders_[1].pending_drivers) = K
        /\ \E i, j \in 1..K :
              DistanceTo(1, riders_[1].pending_drivers[i])
                 < DistanceTo(1, riders_[1].pending_drivers[j])
        /\ \E d \in DOMAIN drivers_ : ~Mem(riders_[1].pending_drivers, d)

\* the cleanup of thread t's successful driver_accept runs and the call returns
CleansUp(t) == pc[t] = "da_cleanup" /\ pc'[t] = "idle"

\* C35: when a successful driver_accept(d, r) returns, d and r are in neither
\* registry, no cell of the index lists d, and no other registered driver that
\* r.pending_drivers listed has r's id in its inbox.
C35_CleanupAfterMatch ==
    [][\A t \in Clients :
          CleansUp(t) =>
             LET d == frame[t].driver_id
                 r == frame[t].rider_id
             IN /\ d \notin DOMAIN drivers_'
                /\ r \notin DOMAIN riders_'
                /\ \A cell \in DOMAIN drivers_by_cell_' :
                      ~Mem(drivers_by_cell_'[cell], d)
                /\ \A o \in DOMAIN drivers_' :
                      Mem(riders_[r].pending_drivers, o) =>
                         ~Mem(drivers_'[o].inbox, r)]_vars

\* driver_accept(d, r) has committed and is about to clean up, while another
\* registered driver listed in r.pending_drivers holds r's offer in its inbox
C35_Witness ==
    \E t \in Clients :
        /\ pc[t] = "da_cleanup"
        /\ \E o \in (DOMAIN drivers_) \ {frame[t].driver_id} :
              /\ Mem(riders_[frame[t].rider_id].pending_drivers, o)
              /\ Mem(drivers_[o].inbox, frame[t].rider_id)

\* C40: the two steps of a successful driver_accept(d, r), the commit and the
\* cleanup, leave every rider other than r registered, OPEN and as it was,
\* leave every driver other than d registered with its ask, location and
\* state and listed in its cell as before, and change the inbox of another
\* driver at most by removing r's id.
C40_AcceptFrame ==
    [][\A t \in Clients :
          (Commits(t) \/ CleansUp(t)) =>
             LET d == frame[t].driver_id
                 r == frame[t].rider_id
             IN /\ \A r2 \in (DOMAIN riders_) \ {r} :
                      /\ r2 \in DOMAIN riders_'
                      /\ riders_'[r2] = riders_[r2]
                      /\ riders_'[r2].state = "OPEN"
                /\ \A d2 \in (DOMAIN drivers_) \ {d} :
                      /\ d2 \in DOMAIN drivers_'
                      /\ drivers_'[d2].ask = drivers_[d2].ask
                      /\ drivers_'[d2].loc = drivers_[d2].loc
                      /\ drivers_'[d2].state = drivers_[d2].state
                      /\ drivers_'[d2].inbox \in
                            {drivers_[d2].inbox, Remove(drivers_[d2].inbox, r)}
                /\ \A cell \in DOMAIN drivers_by_cell_ \cup DOMAIN drivers_by_cell_' :
                      Remove(BucketOf(drivers_by_cell_', cell), d)
                         = Remove(BucketOf(drivers_by_cell_, cell), d)]_vars

\* driver_accept(d, r) has committed and is about to clean up while d's inbox
\* also holds the offer of another registered rider
C40_Witness ==
    \E t \in Clients :
        /\ pc[t] = "da_cleanup"
        /\ \E r2 \in (DOMAIN riders_) \ {frame[t].rider_id} :
              Mem(drivers_[frame[t].driver_id].inbox, r2)

\* the weights of the edges of the graph from node a to node b
WeightsBetween(graph, a, b) ==
    {graph.edges[i].weight : i \in {j \in 1..Len(graph.edges) :
                                       graph.edges[j].from = a /\ graph.edges[j].to = b}}

\* the total weights of the walks that visit the nodes of path in order, each
\* step along an edge of the graph in its direction; empty when some
\* consecutive pair is not joined by an edge
RECURSIVE PathCosts(_, _)
PathCosts(graph, path) ==
    IF Len(path) <= 1 THEN {0}
    ELSE {w + c : w \in WeightsBetween(graph, path[1], path[2]),
                  c \in PathCosts(graph, Tail(path))}

\* C36: when the goal is reachable, the path AStar::shortest_path returns
\* starts at start_idx, ends at goal_idx, steps along edges of the graph in
\* their direction, and total_cost is the sum of the weights along it (path
\* [start] and cost 0 when start = goal); when the goal is unreachable the
\* path is empty and total_cost is +infinity.
C36_PathMatchesCost ==
    \A start_idx \in NodeIndices(graph_), goal_idx \in NodeIndices(graph_) :
        \A result \in shortest_path(graph_, start_idx, goal_idx) :
            IF MinCost(graph_, start_idx, goal_idx) < Infinity
            THEN /\ result.path # <<>>
                 /\ result.path[1] = start_idx
                 /\ result.path[Len(result.path)] = goal_idx
                 /\ result.total_cost \in PathCosts(graph_, result.path)
                 /\ start_idx = goal_idx =>
                       result.path = <<start_idx>> /\ result.total_cost = 0
            ELSE /\ result.path = <<>>
                 /\ result.total_cost = Infinity

\* route has returned the cost of a path of two edges, found on a graph where
\* another pair of nodes has no path
C36_Witness ==
    /\ route_ret.called
    /\ graph_.nodes # <<>>
    /\ \E result \in shortest_path(graph_, find_nearest_node(graph_, route_ret.lat1),
                                   find_nearest_node(graph_, route_ret.lat2)) :
          /\ Len(result.path) = 3
          /\ result.total_cost = route_ret.cost
    /\ \E a \in NodeIndices(graph_), b \in NodeIndices(graph_) :
          MinCost(graph_, a, b) = Infinity

\* C37: from the worker's OPEN check to the end of offer emission the record
\* of the worker's rider stays in the rider registry: while the worker
\* computes the candidates and emits the offers, no rider_cancel, timeout
\* cancellation or driver_accept has erased it.
C37_RiderPresentWhileProcessed ==
    \A w \in Workers :
        pc[w] \in {"wk_cells", "wk_find", "wk_send"} =>
            /\ frame[w].rider_id \in DOMAIN riders_
            /\ ~frame[w].lost

\* the number of times rider id r is in the inbox of driver d
InboxCount(d, r) ==
    Cardinality({i \in 1..Len(drivers_[d].inbox) : drivers_[d].inbox[i] = r})

\* C38: no driver's inbox holds the same rider id more than once, whatever
\* add_rider, rider_cancel and add_rider calls reuse a rider id while the
\* workers process the queue.
C38_NoDuplicateOffer ==
    \A d \in DOMAIN drivers_ : \A r \in RiderIds : InboxCount(d, r) <= 1

\* the number of times rider id r is in the inbox of driver d, 0 for a driver
\* that is not registered
InboxCountBefore(d, r) == IF d \in DOMAIN drivers_ THEN InboxCount(d, r) ELSE 0

\* C39: a rider id enters the pending queue only by the push of a successful
\* add_rider and leaves it only when a worker pops it; once a worker has
\* processed a rider, its id is appended to no inbox any more, whatever
\* add_driver calls follow; and a processed rider for which no eligible driver
\* was found stays OPEN with empty pending_drivers for as long as it is
\* registered.
C39_ProcessedOnce ==
    [][/\ pending_riders_' # pending_riders_ =>
             \/ \E t \in Clients :
                   /\ pc[t] = "ar_queue"
                   /\ pending_riders_' = Append(pending_riders_, frame[t].rider_id)
             \/ \E w \in Workers :
                   /\ pc[w] = "wk_top"
                   /\ pending_riders_' = Tail(pending_riders_)
       /\ \A r \in DOMAIN riders_ :
             riders_[r].processed =>
                \A d \in DOMAIN drivers_' :
                   InboxCount(d, r)' <= InboxCountBefore(d, r)
       /\ \A r \in DOMAIN riders_ :
             (riders_[r].processed /\ riders_[r].pending_drivers = <<>>
                 /\ r \in DOMAIN riders_') =>
                /\ riders_'[r].state = "OPEN"
                /\ riders_'[r].pending_drivers = <<>>]_vars
====
